---- MODULE Spec2Model ----
(***************************************************************************)
(* Model of the structured-op matcher of                                   *)
(*   llvm-external-projects/iree-dialects/.../TransformMatchers.{h,cpp}    *)
(* A matcher owns an ordered predicate list, a captured-operation slot and *)
(* a list of pointers to the matchers nested in it.  match(op) evaluates   *)
(* the predicates in order against a read-only operation graph.            *)
(***************************************************************************)
EXTENDS Integers, Sequences, FiniteSets, TLC

\* nullptr: "no operation" (Operation * / linalg::LinalgOp captured = nullptr).
Null == 0
\* ShapedType::kDynamicSize, the size getStaticLoopRanges reports for a
\* dimension that is not statically known.
Dyn == -1

-----------------------------------------------------------------------------
(* Bounds of the model.                                                    *)

\* Largest rank of the synthetic operations the dimension predicates are
\* applied to.
MaxRank == 4
\* Largest number of inputs / outputs of the synthetic operations the
\* positional predicates are applied to.
MaxArity == 2
\* Largest number of indices in a dimension list (the dimensions of
\* dim(list, kind), the exclusions of AllDimsExcept).
MaxDims == 2
\* The payload groups added to one MatchCallbackResult, the operations of
\* one group, and the registrations made on one registry.
MaxGroups == 3
MaxGroupLen == 2
MaxRegistrations == 3

-----------------------------------------------------------------------------
(* The operation graph (external, read-only).                              *)
(* A value is either result i of an operation or block argument i of the   *)
(* region of an operation (mlir::Value: OpResult / BlockArgument).         *)

Res(n) == [k |-> "res", op |-> n, i |-> 0]
Arg(n, j) == [k |-> "arg", op |-> n, i |-> j]

\* A linalg (structured) operation: kind "generic" or "fill".
\* iters/sizes: iterator types and static loop ranges; inMaps/outMaps: the
\* classification of the indexing map of each input/init operand
\* ("perm", "proj" = projected permutation that is no permutation, "none").
Linalg(kind, parent, ins, outs, iters, sizes, inMaps, outMaps) ==
  [kind |-> kind, parent |-> parent, ins |-> ins, outs |-> outs,
   nres |-> Len(outs), iters |-> iters, sizes |-> sizes,
   inMaps |-> inMaps, outMaps |-> outMaps, bits |-> 32, combiners |-> 1]

\* An operation that is no LinalgOp: "func", "slice" (tensor.extract_slice),
\* "foreach" (scf.foreach_thread, outs = its shared outputs, tied one-to-one
\* to its output block arguments), "pad" (a TilingInterface op that is no
\* LinalgOp) or "other".
Plain(kind, parent, ins, outs, nres) ==
  [kind |-> kind, parent |-> parent, ins |-> ins, outs |-> outs,
   nres |-> nres, iters |-> <<>>, sizes |-> <<>>,
   inMaps |-> <<>>, outMaps |-> <<>>, bits |-> 0, combiners |-> 0]

\* The payload IR the matchers are run on: nine functions.
\*   func 1:   %2 = generic(arg)            %3 = generic(%2) outs(arg)
\*   func 4:   %5 = generic(arg)  (leading) %6 = fill
\*             %7 = generic(%5) outs(%6)   (reduction, 4x4x128)
\*             %8 = generic(%7)  (trailing) %9 = extract_slice %8
\*             %10 = other(%7)
\*   func 11:  %12 = generic(arg)  %13 = foreach_thread shared_outs(%12)
\*             { %14 = generic(arg) outs(block argument of %13) }
\*             %15 = extract_slice %13    %16 = generic(%15)
\*   func 17:  %18 = fill   %19 = generic(arg) outs(%18)   (reduction, 4x128)
\*             %20 = pad(%19)   %21 = generic(%19)
\*   func 22:  %23 = fill   %24 = generic(arg) outs(%23)   (no leading)
\*             %25 = generic(%24)  (trailing)
\*   func 26:  %27 = generic(arg)  (leading)   %28 = fill
\*             %29 = generic(%27) outs(%28)    %30 = other(%29) (no trailing)
\*   func 31:  %32 = generic(arg)  %33 = generic(arg) outs(%32)  (no fill)
\*             %34 = generic(arg) outs(arg)                       (no fill)
\*   func 35:  %36 = generic(arg)  %37 = extract_slice %36
\*             %38 = extract_slice %37         %39 = generic(%38)
\*             %40 = extract_slice %39         %41 = generic(%39)
\*             %42 = generic(%40)
\*             %43 = foreach_thread shared_outs(%41, %42)
\*             { %44 = generic(arg) outs(block argument 0 of %43)
\*               %45 = generic(arg) outs(block argument 1 of %43) }
\*   func 46:  %47 = generic(arg) (leading)    %48 = fill (parallel fill)
\*             %49 = generic(%47) outs(%48)    (parallel reduction)
\*             %50 = extract_slice %49         %51 = fill (original fill)
\*             %52 = generic(%50) outs(%51)    (combiner reduction)
\*             %53 = generic(%52) (trailing)
Op ==
  <<Plain("func", Null, <<>>, <<>>, 0),
    Linalg("generic", 1, <<Arg(1, 0)>>, <<Arg(1, 1)>>,
           <<"parallel", "parallel">>, <<4, Dyn>>, <<"perm">>, <<"perm">>),
    Linalg("generic", 1, <<Res(2)>>, <<Arg(1, 2)>>,
           <<"parallel", "parallel", "reduction">>, <<4, Dyn, 6>>,
           <<"proj">>, <<"none">>),
    Plain("func", Null, <<>>, <<>>, 0),
    Linalg("generic", 4, <<Arg(4, 0)>>, <<Arg(4, 1)>>,
           <<"parallel", "parallel", "parallel">>, <<4, 4, 128>>,
           <<"perm">>, <<"perm">>),
    Linalg("fill", 4, <<Arg(4, 2)>>, <<Arg(4, 3)>>,
           <<"parallel", "parallel">>, <<4, 4>>, <<"proj">>, <<"perm">>),
    Linalg("generic", 4, <<Res(5)>>, <<Res(6)>>,
           <<"parallel", "parallel", "reduction">>, <<4, 4, 128>>,
           <<"perm">>, <<"proj">>),
    Linalg("generic", 4, <<Res(7)>>, <<Arg(4, 4)>>,
           <<"parallel", "parallel">>, <<4, 4>>, <<"perm">>, <<"perm">>),
    Plain("slice", 4, <<Res(8)>>, <<>>, 1),
    Plain("other", 4, <<Res(7)>>, <<>>, 0),
    Plain("func", Null, <<>>, <<>>, 0),
    Linalg("generic", 11, <<Arg(11, 0)>>, <<Arg(11, 1)>>,
           <<"parallel">>, <<8>>, <<"perm">>, <<"perm">>),
    Plain("foreach", 11, <<>>, <<Res(12)>>, 1),
    Linalg("generic", 13, <<Arg(11, 0)>>, <<Arg(13, 0)>>,
           <<"parallel">>, <<8>>, <<"perm">>, <<"perm">>),
    Plain("slice", 11, <<Res(13)>>, <<>>, 1),
    Linalg("generic", 11, <<Res(15)>>, <<Arg(11, 2)>>,
           <<"parallel">>, <<Dyn>>, <<"perm">>, <<"perm">>),
    Plain("func", Null, <<>>, <<>>, 0),
    Linalg("fill", 17, <<Arg(17, 0)>>, <<Arg(17, 1)>>,
           <<"parallel">>, <<4>>, <<"proj">>, <<"perm">>),
    Linalg("generic", 17, <<Arg(17, 2)>>, <<Res(18)>>,
           <<"parallel", "reduction">>, <<4, 128>>, <<"perm">>, <<"proj">>),
    Plain("pad", 17, <<Res(19)>>, <<>>, 1),
    Linalg("generic", 17, <<Res(19)>>, <<Arg(17, 3)>>,
           <<"parallel">>, <<4>>, <<"perm">>, <<"perm">>),
    Plain("func", Null, <<>>, <<>>, 0),
    Linalg("fill", 22, <<Arg(22, 0)>>, <<Arg(22, 1)>>,
           <<"parallel", "parallel">>, <<4, 4>>, <<"proj">>, <<"perm">>),
    Linalg("generic", 22, <<Arg(22, 2)>>, <<Res(23)>>,
           <<"parallel", "parallel", "reduction">>, <<4, 4, 128>>,
           <<"perm">>, <<"proj">>),
    Linalg("generic", 22, <<Res(24)>>, <<Arg(22, 3)>>,
           <<"parallel", "parallel">>, <<4, 4>>, <<"perm">>, <<"perm">>),
    Plain("func", Null, <<>>, <<>>, 0),
    Linalg("generic", 26, <<Arg(26, 0)>>, <<Arg(26, 1)>>,
           <<"parallel", "parallel", "parallel">>, <<4, 4, 128>>,
           <<"perm">>, <<"perm">>),
    Linalg("fill", 26, <<Arg(26, 2)>>, <<Arg(26, 3)>>,
           <<"parallel", "parallel">>, <<4, 4>>, <<"proj">>, <<"perm">>),
    Linalg("generic", 26, <<Res(27)>>, <<Res(28)>>,
           <<"parallel", "parallel", "reduction">>, <<4, 4, 128>>,
           <<"perm">>, <<"proj">>),
    Plain("other", 26, <<Res(29)>>, <<>>, 0),
    Plain("func", Null, <<>>, <<>>, 0),
    Linalg("generic", 31, <<Arg(31, 0)>>, <<Arg(31, 1)>>,
           <<"parallel">>, <<4>>, <<"perm">>, <<"perm">>),
    Linalg("generic", 31, <<Arg(31, 2)>>, <<Res(32)>>,
           <<"parallel", "reduction">>, <<4, 128>>, <<"perm">>, <<"proj">>),
    Linalg("generic", 31, <<Arg(31, 2)>>, <<Arg(31, 3)>>,
           <<"parallel", "reduction">>, <<4, 128>>, <<"perm">>, <<"proj">>),
    Plain("func", Null, <<>>, <<>>, 0),
    Linalg("generic", 35, <<Arg(35, 0)>>, <<Arg(35, 1)>>,
           <<"parallel">>, <<8>>, <<"perm">>, <<"perm">>),
    Plain("slice", 35, <<Res(36)>>, <<>>, 1),
    Plain("slice", 35, <<Res(37)>>, <<>>, 1),
    Linalg("generic", 35, <<Res(38)>>, <<Arg(35, 2)>>,
           <<"parallel">>, <<8>>, <<"perm">>, <<"perm">>),
    Plain("slice", 35, <<Res(39)>>, <<>>, 1),
    Linalg("generic", 35, <<Res(39)>>, <<Arg(35, 3)>>,
           <<"parallel">>, <<8>>, <<"perm">>, <<"perm">>),
    Linalg("generic", 35, <<Res(40)>>, <<Arg(35, 4)>>,
           <<"parallel">>, <<8>>, <<"perm">>, <<"perm">>),
    Plain("foreach", 35, <<>>, <<Res(41), Res(42)>>, 2),
    Linalg("generic", 43, <<Arg(35, 0)>>, <<Arg(43, 0)>>,
           <<"parallel">>, <<8>>, <<"perm">>, <<"perm">>),
    Linalg("generic", 43, <<Arg(35, 0)>>, <<Arg(43, 1)>>,
           <<"parallel">>, <<8>>, <<"perm">>, <<"perm">>),
    Plain("func", Null, <<>>, <<>>, 0),
    Linalg("generic", 46, <<Arg(46, 0)>>, <<Arg(46, 1)>>,
           <<"parallel", "parallel">>, <<4, 128>>, <<"perm">>, <<"perm">>),
    Linalg("fill", 46, <<Arg(46, 2)>>, <<Arg(46, 3)>>,
           <<"parallel">>, <<4>>, <<"proj">>, <<"perm">>),
    Linalg("generic", 46, <<Res(47)>>, <<Res(48)>>,
           <<"parallel", "reduction">>, <<4, 128>>, <<"perm">>, <<"proj">>),
    Plain("slice", 46, <<Res(49)>>, <<>>, 1),
    Linalg("fill", 46, <<Arg(46, 4)>>, <<Arg(46, 5)>>,
           <<"parallel">>, <<1>>, <<"proj">>, <<"perm">>),
    Linalg("generic", 46, <<Res(50)>>, <<Res(51)>>,
           <<"parallel", "reduction">>, <<1, 4>>, <<"perm">>, <<"proj">>),
    Linalg("generic", 46, <<Res(52)>>, <<Arg(46, 6)>>,
           <<"parallel">>, <<1>>, <<"perm">>, <<"perm">>)>>

Nodes == 1..Len(Op)

\* dyn_cast<linalg::LinalgOp>(op) succeeds.
IsLinalg(n) == n \in Nodes /\ Op[n].kind \in {"generic", "fill"}
\* The operation implements TilingInterface.
IsTilable(n) == n \in Nodes /\ Op[n].kind \in {"generic", "fill", "pad"}

\* Value::getDefiningOp(): the producer, null for a block argument.
DefiningOp(v) == IF v.k = "res" THEN v.op ELSE Null

\* The operand uses of the IR, in use-list order: one entry per operand
\* slot, "in" for an input (or the source of a slice), "out" for an init
\* (or a shared output of a foreach_thread).
RECURSIVE SlotsOf(_, _, _)
SlotsOf(n, kind, j) ==
  LET ops == IF kind = "in" THEN Op[n].ins ELSE Op[n].outs
  IN IF j > Len(ops) THEN <<>>
     ELSE <<[owner |-> n, slot |-> kind, idx |-> j - 1, v |-> ops[j]]>>
          \o SlotsOf(n, kind, j + 1)

RECURSIVE UseListFrom(_)
UseListFrom(n) ==
  IF n > Len(Op) THEN <<>>
  ELSE SlotsOf(n, "in", 1) \o SlotsOf(n, "out", 1) \o UseListFrom(n + 1)

UseList == UseListFrom(1)

\* Value::getUses(), in use-list order.
UsesOf(v) == SelectSeq(UseList, LAMBDA u : u.v = v)

\* op->getParentOfType<func::FuncOp>(): nearest enclosing function or null.
RECURSIVE ParentFunc(_)
ParentFunc(n) ==
  IF n = Null \/ Op[n].parent = Null THEN Null
  ELSE IF Op[Op[n].parent].kind = "func" THEN Op[n].parent
  ELSE ParentFunc(Op[n].parent)

\* Whether operation n is nested (at any depth) in operation p.
RECURSIVE IsNestedIn(_, _)
IsNestedIn(n, p) ==
  IF Op[n].parent = Null THEN FALSE
  ELSE Op[n].parent = p \/ IsNestedIn(Op[n].parent, p)

-----------------------------------------------------------------------------
(* Subset traversal.                                                       *)

\* A traversal that stops at the producer or the owner of the block, views
\* and foreach_thread included.
stopAtProducer(val) == IF val.k = "res" THEN val.op ELSE val.op

\* traverseSubsetsBackwards(val): the first producer that is no
\* extract_slice, following the tied operand of a foreach_thread block
\* argument; a block argument of any other operation yields that operation.
RECURSIVE traverseSubsetsBackwards(_)
traverseSubsetsBackwards(val) ==
  LET op == DefiningOp(val)
  IN IF op = Null
     THEN LET blockOp == val.op
          IN IF Op[blockOp].kind = "foreach"
             THEN traverseSubsetsBackwards(Op[blockOp].outs[val.i + 1])
             ELSE blockOp
     ELSE IF Op[op].kind = "slice"
          THEN traverseSubsetsBackwards(Op[op].ins[1])
          ELSE op

\* The find_if of the foreach_thread case: the index of the first output
\* block argument of `loop` for which getTiedOpOperand(bbarg) != &use,
\* or -1 for range.end().  Block argument j is tied to shared output j.
FirstOtherTied(loop, use) ==
  LET cand == {j \in 0..(Len(Op[loop].outs) - 1) :
                 ~(use.slot = "out" /\ use.idx = j)}
  IN IF cand = {} THEN -1
     ELSE CHOOSE j \in cand : \A j2 \in cand : j <= j2

\* A pass that commits to the first use, whatever its owner.
followFirstUse(uses, val) ==
  IF uses = <<>> THEN [found |-> FALSE, user |-> 0, val |-> val]
  ELSE IF Op[Head(uses).owner].kind = "slice"
       THEN [found |-> FALSE, user |-> 0, val |-> Res(Head(uses).owner)]
       ELSE [found |-> TRUE, user |-> Head(uses).owner, val |-> val]

\* One pass of the range-for over the uses of the value the pass started
\* from.  `continue` moves to the next use of that same range; the
\* assignments to val are only seen by the next pass of the do-while.
\* Returns the user found, or the value val was left with.
RECURSIVE ForwardPass(_, _)
ForwardPass(uses, val) ==
  IF uses = <<>> THEN [found |-> FALSE, user |-> Null, val |-> val]
  ELSE LET use == Head(uses)
           user == use.owner
       IN IF Op[user].kind = "foreach"
          THEN LET it == FirstOtherTied(user, use)
               IN IF it = -1
                  THEN [found |-> TRUE, user |-> user, val |-> val]
                  ELSE ForwardPass(Tail(uses), Arg(user, it))
          ELSE IF Op[user].kind = "slice"
               THEN ForwardPass(Tail(uses), Res(user))
               ELSE [found |-> TRUE, user |-> user, val |-> val]

\* What a call that never returns is reported as.
Diverges == -1

\* traverseSubsetsForwardAnyUse(val): do { for (use : val.getUses()) ... }
\* while (true).  The loop has no exit but the returns inside the range-for;
\* when a pass ends with a value some earlier pass started from, the loop
\* repeats forever and the result is Diverges.
RECURSIVE ForwardLoop(_, _)
ForwardLoop(val, started) ==
  LET pass == ForwardPass(UsesOf(val), val)
  IN IF pass.found THEN pass.user
     ELSE IF pass.val \in started THEN Diverges
     ELSE ForwardLoop(pass.val, started \cup {pass.val})

traverseSubsetsForwardAnyUse(val) == ForwardLoop(val, {val})

-----------------------------------------------------------------------------
(* Predicates on one structured operation.  `o` is the record of the       *)
(* operation.  An access outside a list is undefined behaviour: the        *)
(* operators report it (oob) and the caller resolves it with the choice    *)
(* `g` of what the build does there (trap, or go on with what was read).   *)

\* linalgOp.getNumLoops()
Rank(o) == Len(o.iters)
\* linalgOp.getNumDpsInputs() / getNumDpsInits() / getNumResults()
NumDpsInputs(o) == Len(o.ins)
NumDpsInits(o) == Len(o.outs)
NumResults(o) == o.nres

\* A resolution that counts a negative index from one dimension too far.
OffByOne(dimension, rank) ==
  IF dimension >= 0 THEN dimension ELSE rank + dimension - 1

\* "dimension >= 0 ? dimension : rank + dimension", the negative-index
\* resolution every dimension and position predicate starts with.  rank is
\* unsigned (or size_t) and dimension int64_t: the sum is taken in 64 bits
\* and is the mathematical sum for the ranks and indices of the model.
Transformed(dimension, rank) ==
  IF dimension >= 0 THEN dimension ELSE rank + dimension

\* ShapedType::isDynamic(size) ^ (kind == ShapeKind::Static)
ShapeIs(size, kind) == (size = Dyn) # (kind = "Static")

\* dim(SmallVector<int64_t> dimensions, ShapeKind kind)
RECURSIVE DimShape(_, _, _)
DimShape(o, dimensions, kind) ==
  IF dimensions = <<>> THEN TRUE
  ELSE LET t == Transformed(Head(dimensions), Len(o.sizes))
       IN IF t < 0 \/ t >= Len(o.sizes) THEN FALSE
          ELSE IF ShapeIs(o.sizes[t + 1], kind)
               THEN DimShape(o, Tail(dimensions), kind)
               ELSE FALSE

\* dim(AllDims, ShapeKind kind)
DimAllShape(o, kind) ==
  \A j \in 1..Len(o.sizes) : ShapeIs(o.sizes[j], kind)

\* dim(SmallVector<int64_t> dimensions, utils::IteratorType kind)
RECURSIVE DimIter(_, _, _)
DimIter(o, dimensions, kind) ==
  IF dimensions = <<>> THEN TRUE
  ELSE LET t == Transformed(Head(dimensions), Rank(o))
       IN IF t < 0 \/ t >= Rank(o) THEN FALSE
          ELSE IF o.iters[t + 1] = kind
               THEN DimIter(o, Tail(dimensions), kind)
               ELSE FALSE

\* The set excludedDims that dim(AllDimsExcept, kind) builds.
ExcludedDims(o, excluded) ==
  {Transformed(excluded[j], Rank(o)) : j \in 1..Len(excluded)}

\* dim(AllDimsExcept dims, utils::IteratorType kind); dim(AllDims, kind) is
\* dim(AllDimsExcept({}), kind).
DimExcept(o, excluded, kind) ==
  \A index \in 0..(Rank(o) - 1) :
     index \in ExcludedDims(o, excluded) \/ o.iters[index + 1] = kind

\* The static loop range a predicate reads at a resolved dimension: only
\* "transformedDimension >= rank" is rejected, a negative resolved
\* dimension is read outside the list.
LoopRangeAt(o, dimension) ==
  LET t == Transformed(dimension, Rank(o))
  IN IF t >= Rank(o) THEN [at |-> "reject", idx |-> t]
     ELSE IF t < 0 THEN [at |-> "oob", idx |-> t]
     ELSE [at |-> "in", idx |-> t]

\* dim(int64_t dimension, DivisibleBy divisibleBy); garbage is what an
\* access outside the list reads.
DimDivisible(o, dimension, value, garbage) ==
  LET loc == LoopRangeAt(o, dimension)
      size == IF loc.at = "in" THEN o.sizes[loc.idx + 1] ELSE garbage
  IN [r |-> loc.at # "reject" /\ size # Dyn /\ size % value = 0,
      oob |-> loc.at = "oob"]

\* dim(int64_t dimension, CaptureStaticValue<int64_t> capture): the result
\* and the value written to the capture cell (when written).
DimCapture(o, dimension, garbage) ==
  LET loc == LoopRangeAt(o, dimension)
  IN [r |-> loc.at # "reject",
      oob |-> loc.at = "oob",
      writes |-> loc.at # "reject",
      value |-> IF loc.at = "in" THEN o.sizes[loc.idx + 1] ELSE garbage]

\* A positional predicate resolves `position` against `bound`, rejects
\* only "transformedPosition >= bound", and then indexes a list of `size`
\* elements.
Locate(position, bound, size) ==
  LET t == Transformed(position, bound)
  IN IF t >= bound THEN [at |-> "reject", idx |-> t]
     ELSE IF t < 0 \/ t >= size THEN [at |-> "oob", idx |-> t]
     ELSE [at |-> "in", idx |-> t]

\* input(position, matcher, optional) and input(position, SubsetOf):
\* getDpsInputOperand(transformedPosition)
InputOperandAt(o, position) ==
  Locate(position, NumDpsInputs(o), NumDpsInputs(o))

\* output(position, matcher, optional), output(position, ElementTypeBitWidth)
\* and output(position, SingleCombinerReduction):
\* getDpsInitOperand(transformedPosition)
OutputOperandAt(o, position) ==
  Locate(position, NumDpsInits(o), NumDpsInits(o))

\* output(position, SubsetOf): the position is resolved and checked against
\* getNumDpsInputs(), then getDpsInitOperand(transformedPosition) is read.
OutputSubsetOperandAt(o, position) ==
  Locate(position, NumDpsInputs(o), NumDpsInits(o))

\* result(position, HasAnyUse, ...): getResult(transformedPosition)
ResultAt(o, position) ==
  Locate(position, NumResults(o), NumResults(o))

\* AffineMap::isPermutation / isProjectedPermutation of an indexing map.
IsPermutation(map) == map = "perm"
\* A test that takes only the permutations for projected permutations.
OnlyPermutations(map) == map = "perm"
IsProjectedPermutation(map) == map \in {"perm", "proj"}

\* llvm::all_of(getIndexingMaps of the operands, ...)
AllPermutations(maps) == \A j \in 1..Len(maps) : IsPermutation(maps[j])
AllProjectedPermutations(maps) ==
  \A j \in 1..Len(maps) : IsProjectedPermutation(maps[j])

-----------------------------------------------------------------------------
(* Matchers.                                                               *)

\* The matcher objects: the StructuredOpMatcher instances of the client
\* (for makeReductionMatcher: reduction, fill, leading, trailing) and the
\* local commonLeadingOrTrailing of makeReductionMatcher.
Reduction == 1
Fill == 2
Leading == 3
Trailing == 4
Common == 5
\* For makeSplitReductionMatcher: combiner_reduction, original_fill,
\* leading, trailing, parallel_reduction, parallel_fill.
CombinerReduction == 1
OriginalFill == 2
ParallelReduction == 5
ParallelFill == 6
Matchers == 1..6
\* The capture cells of the client (the int64_t fields a
\* CaptureStaticValue refers to), all initially InitCell.
\* For makeReductionMatcher, the fields of MatchedReductionCaptures.
ReductionRank == 1
ReductionDimensionSize == 2
MaybeLeadingRank == 3
MaybeTrailingRank == 4
Cells == 1..4
\* The value a capture cell holds before any match wrote it
\* (MatchedReductionCaptures initialises its fields to 0).
InitCell == 0

VARIABLES
  predicates,               \* [matcher -> sequence of predicates]
  nestedCapturingMatchers,  \* [matcher -> sequence of matchers]
  captured,                 \* [matcher -> operation or Null]
  cells,                    \* [cell -> integer]
  program,                  \* the builder calls of the client, in order
  scope,                    \* the function whose operations the driver walks
  pc,                       \* index of the next builder call
  status,                   \* "ok", "hung" (a call that never returns)
                            \* or "aborted" (a trapped access)
  last,                     \* the last call made and what it did
  probe,                    \* a predicate applied to a synthetic operation
  payloadOperations,        \* MatchCallbackResult: the flat list of operations
  payloadGroupLengths,      \* MatchCallbackResult: the length of each group
  callbacks,                \* MatchCallbacksRegistry: [name -> callback]
  calls,                    \* the arguments of the calls made on these two
  threads                   \* the evaluations of match running concurrently

callbackVars == <<payloadOperations, payloadGroupLengths, callbacks, calls>>

vars == <<predicates, nestedCapturingMatchers, captured, cells, program,
          scope, pc, status, last, probe, callbackVars, threads>>

\* A predicate, as the closure pushed on `predicates`: its kind t and what
\* it captured by value (or, for a nested matcher and a capture cell, by
\* reference).
Pred(t, pos, val, m, opt, dims, kind) ==
  [t |-> t, pos |-> pos, val |-> val, m |-> m, opt |-> opt, dims |-> dims,
   kind |-> kind]

IsaP(kind) == Pred("isa", 0, 0, 0, FALSE, <<>>, kind)
RankGEP(v) == Pred("rankGE", 0, v, 0, FALSE, <<>>, "")
RankLEP(v) == Pred("rankLE", 0, v, 0, FALSE, <<>>, "")
RankCaptureP(cell) == Pred("capRank", 0, cell, 0, FALSE, <<>>, "")
DimShapeP(dims, kind) == Pred("dimShape", 0, 0, 0, FALSE, dims, kind)
DimAllShapeP(kind) == Pred("dimAllShape", 0, 0, 0, FALSE, <<>>, kind)
DimIterP(dims, kind) == Pred("dimIter", 0, 0, 0, FALSE, dims, kind)
DimExceptP(dims, kind) == Pred("dimExcept", 0, 0, 0, FALSE, dims, kind)
DimDivisibleP(d, v) == Pred("dimDiv", d, v, 0, FALSE, <<>>, "")
DimCaptureP(d, cell) == Pred("capDim", d, cell, 0, FALSE, <<>>, "")
NumInputsP(v) == Pred("numIn", 0, v, 0, FALSE, <<>>, "")
NumOutputsP(v) == Pred("numOut", 0, v, 0, FALSE, <<>>, "")
InputMapsP(kind) == Pred("inMaps", 0, 0, 0, FALSE, <<>>, kind)
OutputMapsP(kind) == Pred("outMaps", 0, 0, 0, FALSE, <<>>, kind)
OutputBitsP(pos, v) == Pred("outBits", pos, v, 0, FALSE, <<>>, "")
OutputCombinerP(pos) == Pred("outComb", pos, 0, 0, FALSE, <<>>, "")
InputP(pos, m, opt) == Pred("input", pos, 0, m, opt, <<>>, "")
OutputP(pos, m, opt) == Pred("output", pos, 0, m, opt, <<>>, "")
ResultP(pos, m, opt) == Pred("result", pos, 0, m, opt, <<>>, "")
InputSubsetP(pos, m) == Pred("inputSub", pos, 0, m, FALSE, <<>>, "")
OutputSubsetP(pos, m) == Pred("outputSub", pos, 0, m, FALSE, <<>>, "")
ResultSubsetP(pos, m, opt) == Pred("resultSub", pos, 0, m, opt, <<>>, "")
AllTilableP(copy) == Pred("allTilable", 0, 0, 0, FALSE, copy, "")
\* "dst = src...": no predicate, the copy assignment of a matcher from
\* matcher m.
AssignP(m) == Pred("assign", 0, 0, m, FALSE, <<>>, "")

\* The predicates that run a nested matcher.
NestingKinds ==
  {"input", "output", "result", "inputSub", "outputSub", "resultSub"}

\* What the build does at an access outside a list: it traps (an assertion
\* of the container, or a fault), or it goes on with whatever it read: the
\* integer `int` for a loop range, the value `val` for an operand or result.
Garbage ==
  [traps : BOOLEAN, int : {Dyn, 6}, val : {Arg(1, 0), Res(6)}]
NoGarbage == [traps |-> TRUE, int |-> Dyn, val |-> Arg(1, 0)]

\* The state a call threads through its evaluation: the captures, and the
\* record of what ran (trace: one event per predicate evaluated, i > 0, and
\* per match call finished, i = 0).
Event(m, i, n, r) == [m |-> m, i |-> i, n |-> n, r |-> r]
Log(st, m, i, n, r) == [st EXCEPT !.trace = Append(@, Event(m, i, n, r))]
Pure(b, st) == [r |-> b, st |-> st]
OutOfBounds(st, g) ==
  [st EXCEPT !.oob = TRUE,
             !.status = IF g.traps THEN "aborted" ELSE @]

\* An all_of that evaluates every predicate, whatever the earlier returned.
NeverStops(r) == FALSE

\* llvm::all_of stops at the first predicate that returns false.
StopsAt(r) == ~r

\* A match that never records its candidate, and one that records it
\* before it evaluates the predicates.
CaptureNever(cap, m, n, ok) == cap
CaptureAlways(cap, m, n, ok) == [cap EXCEPT ![m] = n]

\* "captured = linalgOp" runs only after all_of returned true.
Capture(cap, m, n, ok) == IF ok THEN [cap EXCEPT ![m] = n] ELSE cap

\* A capture that clears a cell that already holds the value.
Toggle(old, new) == IF old = new THEN InitCell ELSE new

\* A capture that leaves its cell as it found it.
KeepOld(old, new) == old

\* "capture.value = ...": the cell is overwritten.
Store(old, new) == new

\* A check that counts the capture of every matcher there is.
checkEveryCapture(parent, n, matchers, cap) ==
  parent # Null
  /\ Cardinality({x \in Nodes : IsTilable(x) /\ IsNestedIn(x, parent)})
       = Cardinality(({cap[m] : m \in DOMAIN cap} \ {Null}) \cup {n})

\* A check that forgets to count the operation the root matcher is on.
checkWithoutRoot(parent, n, matchers, cap) ==
  parent # Null
  /\ Cardinality({x \in Nodes : IsTilable(x) /\ IsNestedIn(x, parent)})
       = Cardinality({cap[matchers[j]] : j \in 1..Len(matchers)} \ {Null})

\* A check that accepts whatever the function holds.
checkNothing(parent, n, matchers, cap) == TRUE

\* checkAllTilableMatched(parent, linalgOp, matchers)
checkAllTilableMatched(parent, n, matchers, cap) ==
  IF parent = Null THEN FALSE
  ELSE LET numTilableOps ==
             Cardinality({x \in Nodes : IsTilable(x) /\ IsNestedIn(x, parent)})
           matched ==
             {cap[matchers[j]] : j \in 1..Len(matchers)} \ {Null}
       IN numTilableOps = Cardinality(matched \cup {n})

\* The value a positional predicate goes on with: the operand or result at
\* the place found, or what an access outside the list read.
ValueAt(loc, list, g) == IF loc.at = "in" THEN list[loc.idx + 1] ELSE g.val
After(loc, st, g) == IF loc.at = "oob" THEN OutOfBounds(st, g) ELSE st

\* getResult(i) of operation n.
ResultValue(n, i) == [k |-> "res", op |-> n, i |-> i]
ResultsOf(n) == [j \in 1..Op[n].nres |-> ResultValue(n, j - 1)]

\* Value::getUsers(): the owners of the uses, in use-list order.
UsersOf(v) == [j \in 1..Len(UsesOf(v)) |-> UsesOf(v)[j].owner]

\* The operations a nested-matcher predicate runs its matcher on, in
\* order, for operation n: `at` is where the position resolved to, `st` the
\* state after locating it, `targets` the operations tried until one
\* matches.
\*   input/output(position, matcher, optional): the operation defining the
\*     operand, none when the operand is a block argument;
\*   input/output(position, SubsetOf): traverseSubsetsBackwards(operand);
\*   result(position, HasAnyUse, matcher, optional): the users of the result;
\*   result(position, HasAnyUse, SubsetOf, optional):
\*     traverseSubsetsForwardAnyUse(result), a call that may never return.
Located(p, o) ==
  CASE p.t \in {"input", "inputSub"} -> InputOperandAt(o, p.pos)
    [] p.t = "output" -> OutputOperandAt(o, p.pos)
    [] p.t = "outputSub" -> OutputSubsetOperandAt(o, p.pos)
    [] p.t \in {"result", "resultSub"} -> ResultAt(o, p.pos)

Produced(v) == IF DefiningOp(v) = Null THEN <<>> ELSE <<DefiningOp(v)>>

Targets(p, n, g) ==
  LET o == Op[n]
      loc == Located(p, o)
  IN CASE p.t = "input" -> Produced(ValueAt(loc, o.ins, g))
       [] p.t = "output" -> Produced(ValueAt(loc, o.outs, g))
       [] p.t = "inputSub" ->
            <<traverseSubsetsBackwards(ValueAt(loc, o.ins, g))>>
       [] p.t = "outputSub" ->
            <<traverseSubsetsBackwards(ValueAt(loc, o.outs, g))>>
       [] p.t = "result" -> UsersOf(ValueAt(loc, ResultsOf(n), g))
       [] p.t = "resultSub" ->
            <<traverseSubsetsForwardAnyUse(ValueAt(loc, ResultsOf(n), g))>>

\* A predicate that never takes its optional flag into account.
NeverOptional(p) == FALSE

\* Whether the predicate succeeds although its nested matcher did not
\* match: "return optional.value" / "|| optional.value"; the SubsetOf
\* operand predicates return the nested result as it is.
Optional(p) == p.t \in {"input", "output", "result", "resultSub"} /\ p.opt

RECURSIVE Match(_, _, _, _)
RECURSIVE EvalFrom(_, _, _, _, _)
RECURSIVE EvalPred(_, _, _, _)
RECURSIVE AnyOf(_, _, _, _)

\* An any_of that tries every target and returns what the last one did.
TriedAll(m, targets, g, res) ==
  IF Tail(targets) = <<>> \/ res.st.status # "ok" THEN res
  ELSE AnyOf(m, Tail(targets), res.st, g)

\* any_of after one target was tried: stop at a match, else go on.
Tried(m, targets, g, res) ==
  IF res.r \/ res.st.status # "ok" THEN res
  ELSE AnyOf(m, Tail(targets), res.st, g)

\* The nested matcher m run on the targets in order, stopping at the first
\* one it matches (llvm::any_of for the users of a result; a single call
\* for an operand).
AnyOf(m, targets, st, g) ==
  IF targets = <<>> THEN Pure(FALSE, st)
  ELSE Tried(m, targets, g, Match(m, Head(targets), st, g))

\* A predicate that involves no other matcher.
EvalSimple(p, n, st, g) ==
  LET o == Op[n]
  IN CASE p.t = "isa" -> Pure(o.kind = p.kind, st)
       [] p.t = "rankGE" -> Pure(Rank(o) >= p.val, st)
       [] p.t = "rankLE" -> Pure(Rank(o) <= p.val, st)
       [] p.t = "capRank" ->
            Pure(TRUE, [st EXCEPT !.cells[p.val] = Store(@, Rank(o))])
       [] p.t = "dimShape" -> Pure(DimShape(o, p.dims, p.kind), st)
       [] p.t = "dimAllShape" -> Pure(DimAllShape(o, p.kind), st)
       [] p.t = "dimIter" -> Pure(DimIter(o, p.dims, p.kind), st)
       [] p.t = "dimExcept" -> Pure(DimExcept(o, p.dims, p.kind), st)
       [] p.t = "dimDiv" ->
            LET d == DimDivisible(o, p.pos, p.val, g.int)
                st1 == IF d.oob THEN OutOfBounds(st, g) ELSE st
            IN Pure(d.r /\ st1.status = "ok", st1)
       [] p.t = "capDim" ->
            LET d == DimCapture(o, p.pos, g.int)
                st1 == IF d.oob THEN OutOfBounds(st, g) ELSE st
            IN IF st1.status # "ok" \/ ~d.writes THEN Pure(FALSE, st1)
               ELSE Pure(d.r, [st1 EXCEPT !.cells[p.val] = Store(@, d.value)])
       [] p.t = "numIn" -> Pure(NumDpsInputs(o) = p.val, st)
       [] p.t = "numOut" -> Pure(NumDpsInits(o) = p.val, st)
       [] p.t = "inMaps" ->
            Pure(IF p.kind = "perm" THEN AllPermutations(o.inMaps)
                 ELSE AllProjectedPermutations(o.inMaps), st)
       [] p.t = "outMaps" ->
            Pure(IF p.kind = "perm" THEN AllPermutations(o.outMaps)
                 ELSE AllProjectedPermutations(o.outMaps), st)
       [] p.t = "outBits" ->
            LET loc == OutputOperandAt(o, p.pos)
                st1 == After(loc, st, g)
            IN Pure(st1.status = "ok" /\
                    IF loc.at = "in" THEN o.bits = p.val
                    ELSE loc.at = "oob" /\ g.int # Dyn, st1)
       [] p.t = "outComb" ->
            LET loc == OutputOperandAt(o, p.pos)
                st1 == After(loc, st, g)
            IN Pure(st1.status = "ok" /\
                    IF loc.at = "in" THEN o.combiners = 1
                    ELSE loc.at = "oob" /\ g.int # Dyn, st1)
       [] p.t = "allTilable" ->
            Pure(checkAllTilableMatched(ParentFunc(n), n, p.dims, st.captured),
                 st)

\* A nested-matcher predicate that is true whenever it ran its matcher.
FoldedTrue(p, res) == Pure(TRUE, res.st)

\* The result of a nested-matcher predicate: the nested result, or true
\* when the match is optional.
Folded(p, res) == Pure(res.r \/ Optional(p), res.st)

\* A nested-matcher predicate once its position is located.
RunNested(p, st, st1, g, loc, targets) ==
  IF loc.at = "reject" THEN Pure(FALSE, st)
  ELSE IF st1.status # "ok" THEN Pure(FALSE, st1)
  ELSE IF targets = <<Diverges>>
       THEN Pure(FALSE, [st1 EXCEPT !.status = "hung"])
  ELSE Folded(p, AnyOf(p.m, targets, st1, g))

EvalNested(p, n, st, g, loc) ==
  RunNested(p, st, After(loc, st, g), g, loc, Targets(p, n, g))

\* One predicate closure applied to operation n.
EvalPred(p, n, st, g) ==
  IF p.t \notin NestingKinds THEN EvalSimple(p, n, st, g)
  ELSE EvalNested(p, n, st, g, Located(p, Op[n]))

\* all_of after predicate i was evaluated: stop at a false, else go on.
Evaluated(m, i, n, g, res) ==
  IF res.st.status # "ok" THEN Pure(FALSE, res.st)
  ELSE IF StopsAt(res.r) THEN Pure(FALSE, Log(res.st, m, i, n, res.r))
  ELSE EvalFrom(m, i + 1, n, Log(res.st, m, i, n, res.r), g)

\* llvm::all_of(predicates, fn(linalgOp)), from predicate i on.
EvalFrom(m, i, n, st, g) ==
  IF i > Len(predicates[m]) THEN Pure(TRUE, st)
  ELSE Evaluated(m, i, n, g, EvalPred(predicates[m][i], n, st, g))

\* The end of match: "captured = linalgOp; return true" or "return false".
Finish(m, n, res) ==
  IF res.st.status # "ok" THEN Pure(FALSE, res.st)
  ELSE Pure(res.r,
            Log([res.st EXCEPT !.captured = Capture(@, m, n, res.r)],
                m, 0, n, res.r))

\* StructuredOpMatcher::match(op)
Match(m, n, st, g) ==
  IF ~IsLinalg(n) THEN Pure(FALSE, Log(st, m, 0, n, FALSE))
  ELSE Finish(m, n, EvalFrom(m, 1, n, st, g))

\* A reset that clears the matchers of the list without recursing into them.
resetShallow(cap, m) ==
  [x \in DOMAIN cap |->
     IF x = m \/ \E j \in 1..Len(nestedCapturingMatchers[m]) :
                   nestedCapturingMatchers[m][j] = x
     THEN Null ELSE cap[x]]

\* StructuredOpMatcher::resetCapture()
RECURSIVE resetCapture(_, _)
RECURSIVE ResetEach(_, _)
ResetEach(cap, list) ==
  IF list = <<>> THEN cap
  ELSE ResetEach(resetCapture(cap, Head(list)), Tail(list))

resetCapture(cap, m) ==
  ResetEach([cap EXCEPT ![m] = Null], nestedCapturingMatchers[m])

\* A builder that records the nested matcher without the matchers nested
\* in it.
recordDirect(list, nested) == Append(list, nested)

\* A builder that never records the matchers it nests.
recordNothing(list, nested) == list

\* recordNestedMatcher(nested): the pointer to the nested matcher, then a
\* copy of the list the nested matcher holds at this moment.
recordNestedMatcher(list, nested) ==
  Append(list, nested) \o nestedCapturingMatchers[nested]

-----------------------------------------------------------------------------
(* The client: it builds its matchers with the builder calls of `program`, *)
(* then drives match and resetCapture on them.                             *)

Step(m, p) == [on |-> m, p |-> p]

\* Fill matcher 2 with a rank capture; user matcher 3 with a rank bound;
\* anchor 1 with a rank bound, a rank capture, an optional fill producer of
\* output 0 and an optional user of result 0 (the shape of
\* makeReductionMatcher's anchor).
ProgOptional ==
  <<Step(2, IsaP("fill")), Step(2, RankCaptureP(2)),
    Step(3, RankGEP(3)),
    Step(1, RankGEP(3)), Step(1, RankCaptureP(1)),
    Step(1, OutputP(0, 2, TRUE)), Step(1, ResultP(0, 3, TRUE))>>

\* Matcher 3 is attached to matcher 2 after matcher 2 was attached to 1.
ProgLate ==
  <<Step(1, InputP(0, 2, TRUE)), Step(2, InputP(0, 3, TRUE)),
    Step(3, DimCaptureP(-1, 1))>>

\* Matcher 3 is nested both in matcher 2, which ends with the
\* exhaustiveness predicate, and in matcher 1.
ProgShared ==
  <<Step(2, InputP(0, 3, TRUE)), Step(2, AllTilableP(<<>>)),
    Step(1, InputP(0, 2, FALSE)), Step(1, InputP(0, 3, TRUE))>>

\* Subset-aware predicates.
ProgSubset ==
  <<Step(1, ResultSubsetP(0, 2, TRUE)), Step(1, OutputSubsetP(0, 3)),
    Step(2, InputSubsetP(0, 3))>>

\* Dimension predicates with indices below -rank for some operations.
ProgDims ==
  <<Step(1, DimIterP(<<-1>>, "reduction")), Step(1, DimCaptureP(-3, 1)),
    Step(3, RankLEP(2)), Step(3, DimShapeP(<<0>>, "Static")),
    Step(3, DimCaptureP(-1, 1)),
    Step(2, DimDivisibleP(-2, 2)), Step(2, RankCaptureP(2))>>

\* A mandatory user of result 0 that must be a generic op: subset-aware
\* for matcher 1, plain for matcher 3.
ProgConsumer ==
  <<Step(2, IsaP("generic")), Step(1, ResultSubsetP(0, 2, FALSE)),
    Step(3, ResultP(0, 2, FALSE))>>

\* makeReductionMatcher(reduction, fill, leading, trailing, captures), call
\* by call; "leading = commonLeadingOrTrailing.rank(...)" is the call of
\* rank on commonLeadingOrTrailing followed by the copy assignment.
ProgReduction ==
  <<Step(Reduction, RankGEP(2)), Step(Reduction, RankLEP(4)),
    Step(Reduction, RankCaptureP(ReductionRank)),
    Step(Reduction, DimIterP(<<-1>>, "reduction")),
    Step(Reduction, DimCaptureP(-1, ReductionDimensionSize)),
    Step(Reduction, DimExceptP(<<-1>>, "parallel")),
    Step(Reduction, NumInputsP(1)), Step(Reduction, InputMapsP("proj")),
    Step(Reduction, NumOutputsP(1)), Step(Reduction, OutputMapsP("proj")),
    Step(Reduction, OutputBitsP(0, 32)), Step(Reduction, OutputCombinerP(0)),
    Step(Fill, IsaP("fill")),
    Step(Reduction, NumOutputsP(1)), Step(Reduction, OutputP(0, Fill, FALSE)),
    Step(Common, IsaP("generic")), Step(Common, DimExceptP(<<>>, "parallel")),
    Step(Common, InputMapsP("proj")), Step(Common, OutputMapsP("perm")),
    Step(Common, NumOutputsP(1)),
    Step(Common, RankCaptureP(MaybeLeadingRank)),
    Step(Leading, AssignP(Common)),
    Step(Reduction, InputP(0, Leading, TRUE)),
    Step(Common, RankCaptureP(MaybeTrailingRank)),
    Step(Trailing, AssignP(Common)),
    Step(Reduction, ResultP(0, Trailing, TRUE)),
    Step(Reduction, AllTilableP(<<>>))>>

\* makeSplitReductionMatcher(parallel_reduction, combiner_reduction,
\* parallel_fill, original_fill, leading, trailing), call by call.
ProgSplit ==
  <<Step(OriginalFill, IsaP("fill")),
    Step(ParallelFill, IsaP("fill")),
    Step(Trailing, IsaP("generic")),
    Step(Trailing, InputMapsP("perm")), Step(Trailing, OutputMapsP("perm")),
    Step(Trailing, NumInputsP(1)), Step(Trailing, NumOutputsP(1)),
    Step(Leading, IsaP("generic")),
    Step(Leading, InputMapsP("perm")), Step(Leading, OutputMapsP("perm")),
    Step(Leading, NumInputsP(1)), Step(Leading, NumOutputsP(1)),
    Step(ParallelReduction, DimAllShapeP("Static")),
    Step(ParallelReduction, DimIterP(<<-1>>, "reduction")),
    Step(ParallelReduction, InputMapsP("perm")),
    Step(ParallelReduction, InputP(0, Leading, TRUE)),
    Step(ParallelReduction, NumOutputsP(1)),
    Step(ParallelReduction, OutputP(0, ParallelFill, FALSE)),
    Step(CombinerReduction, DimAllShapeP("Static")),
    Step(CombinerReduction, DimIterP(<<-1>>, "reduction")),
    Step(CombinerReduction, InputMapsP("perm")),
    Step(CombinerReduction, InputSubsetP(0, ParallelReduction)),
    Step(CombinerReduction, NumOutputsP(1)),
    Step(CombinerReduction, OutputSubsetP(0, OriginalFill)),
    Step(CombinerReduction, OutputBitsP(0, 32)),
    Step(CombinerReduction, OutputCombinerP(0)),
    Step(CombinerReduction, ResultSubsetP(0, Trailing, TRUE)),
    Step(CombinerReduction, AllTilableP(<<>>))>>

\* A client that attaches a user matcher to its anchor, and a producer
\* matcher to the fill matcher nested in the anchor, after it attached the
\* exhaustiveness predicate.
ProgAfter ==
  <<Step(2, IsaP("fill")), Step(3, IsaP("generic")),
    Step(4, IsaP("generic")),
    Step(1, OutputP(0, 2, FALSE)), Step(1, AllTilableP(<<>>)),
    Step(1, ResultP(0, 3, TRUE)), Step(2, InputP(0, 4, TRUE))>>

Programs == {ProgOptional, ProgLate, ProgShared, ProgSubset, ProgDims}

\* The matchers the driver calls: those the client built or nested; of the
\* matchers of makeReductionMatcher and makeSplitReductionMatcher the
\* anchor only (the others run nested in it).
RECURSIVE BuiltBy(_)
BuiltBy(prog) ==
  IF prog = <<>> THEN {}
  ELSE {Head(prog).on} \cup (IF Head(prog).p.m \in Matchers
                             THEN {Head(prog).p.m} ELSE {})
                      \cup BuiltBy(Tail(prog))
Callable ==
  IF program \in {ProgReduction, ProgSplit} THEN {1} ELSE BuiltBy(program)

\* The record of a call: what was called (op, m, n), what it returned (r),
\* the predicates it evaluated (trace), whether it accessed a list out of
\* bounds (oob), and what the state was when it was made: fresh (no
\* matcher of the tree held a capture), rep (it repeats the call before
\* it), had (the matchers whose capture a reset cleared).
NoCall == [op |-> "none", m |-> 0, n |-> Null, r |-> FALSE, trace |-> <<>>,
           oob |-> FALSE, fresh |-> FALSE, rep |-> FALSE, had |-> {}]
BuildCall(m) == [NoCall EXCEPT !.op = "build", !.m = m]
NoProbe == [kind |-> "none"]

\* A MatchCallbackResult and a MatchCallbacksRegistry as constructed, and
\* no evaluation running.
NoThreads == <<>>
InitCallbacks ==
  /\ payloadOperations = <<>>
  /\ payloadGroupLengths = <<>>
  /\ callbacks = <<>>
  /\ calls = <<>>
  /\ threads = NoThreads

InitMatchers ==
  /\ predicates = [m \in Matchers |-> <<>>]
  /\ nestedCapturingMatchers = [m \in Matchers |-> <<>>]
  /\ captured = [m \in Matchers |-> Null]
  /\ cells = [c \in Cells |-> InitCell]
  /\ pc = 1
  /\ status = "ok"
  /\ last = NoCall
  /\ InitCallbacks

\* The functions of the payload IR, and the operations a walk of a
\* function visits: the function and everything nested in it.
Funcs == {n \in Nodes : Op[n].kind = "func"}
Candidates(f) == {n \in Nodes : n = f \/ IsNestedIn(n, f)}

Init ==
  /\ InitMatchers
  /\ program \in Programs
  /\ scope \in {f \in Funcs : f < 17}
  /\ probe = NoProbe

Building == pc <= Len(program)
Built == pc > Len(program)

\* A builder method that only pushes a predicate: rank, dim, input/output
\* counts and maps, element width, combiner, and create<OpType>().
AddPredicate ==
  /\ Building
  /\ program[pc].p.t \notin NestingKinds \cup {"allTilable", "assign"}
  /\ predicates' = [predicates EXCEPT ![program[pc].on] = Append(@, program[pc].p)]
  /\ pc' = pc + 1
  /\ last' = BuildCall(program[pc].on)
  /\ UNCHANGED <<nestedCapturingMatchers, captured, cells, program, scope,
                 status, probe,
                 callbackVars, threads>>

\* input / output / result with a nested matcher (plain or SubsetOf):
\* pushes the predicate, then records the nested matcher.
AttachNested ==
  /\ Building
  /\ program[pc].p.t \in NestingKinds
  /\ predicates' = [predicates EXCEPT ![program[pc].on] = Append(@, program[pc].p)]
  /\ nestedCapturingMatchers' =
       [nestedCapturingMatchers EXCEPT
          ![program[pc].on] = recordNestedMatcher(@, program[pc].p.m)]
  /\ pc' = pc + 1
  /\ last' = BuildCall(program[pc].on)
  /\ UNCHANGED <<captured, cells, program, scope,
                 status, probe,
                 callbackVars, threads>>

\* allTilableOpsCaptured<func::FuncOp>(): the predicate holds a copy of the
\* nested-matcher list as it is now.
AttachAllTilable ==
  /\ Building
  /\ program[pc].p.t = "allTilable"
  /\ predicates' =
       [predicates EXCEPT
          ![program[pc].on] =
             Append(@, AllTilableP(nestedCapturingMatchers[program[pc].on]))]
  /\ pc' = pc + 1
  /\ last' = BuildCall(program[pc].on)
  /\ UNCHANGED <<nestedCapturingMatchers, captured, cells, program, scope,
                 status, probe,
                 callbackVars, threads>>

\* "dst = src": the implicit copy assignment of StructuredOpMatcher copies
\* the predicates, the nested-matcher list and the captured operation.
CopyAssign ==
  /\ Building
  /\ program[pc].p.t = "assign"
  /\ predicates' =
       [predicates EXCEPT ![program[pc].on] = predicates[program[pc].p.m]]
  /\ nestedCapturingMatchers' =
       [nestedCapturingMatchers EXCEPT
          ![program[pc].on] = nestedCapturingMatchers[program[pc].p.m]]
  /\ captured' = [captured EXCEPT ![program[pc].on] = captured[program[pc].p.m]]
  /\ pc' = pc + 1
  /\ last' = BuildCall(program[pc].on)
  /\ UNCHANGED <<cells, program, scope, status, probe,
                 callbackVars, threads>>

\* The matchers the predicates of matcher m run, and the matchers nested in
\* m at any depth.
NestedIn(m) ==
  {predicates[m][j].m :
     j \in {j \in 1..Len(predicates[m]) : predicates[m][j].t \in NestingKinds}}

RECURSIVE Closure(_)
Closure(S) ==
  IF UNION {NestedIn(x) : x \in S} \subseteq S THEN S
  ELSE Closure(S \cup UNION {NestedIn(x) : x \in S})

Reach(m) == Closure(NestedIn(m))
Tree(m) == {m} \cup Reach(m)

\* The state a call starts from.
Start == [captured |-> captured, cells |-> cells, trace |-> <<>>,
          oob |-> FALSE, status |-> "ok"]

Returned(m, n, res) ==
  /\ captured' = res.st.captured
  /\ cells' = res.st.cells
  /\ status' = res.st.status
  /\ last' = [op |-> "match", m |-> m, n |-> n, r |-> res.r,
              trace |-> res.st.trace, oob |-> res.st.oob,
              fresh |-> \A x \in Tree(m) : captured[x] = Null,
              rep |-> last.op = "match" /\ last.m = m /\ last.n = n,
              had |-> {}]

\* The choices that matter to a call: all of them when the call makes an
\* access outside a list, one otherwise (the call never reads it).
GarbageOf(res) == IF res.st.oob THEN Garbage ELSE {NoGarbage}

\* matcher.match(op) called by the driver.  What an access outside a list
\* does is chosen only when the call makes one.
MatchCall ==
  /\ Built
  /\ status = "ok"
  /\ \E m \in Callable, n \in Candidates(scope) :
       \E g \in GarbageOf(Match(m, n, Start, NoGarbage)) :
          Returned(m, n, Match(m, n, Start, g))
  /\ UNCHANGED <<predicates, nestedCapturingMatchers, program, scope, pc, probe,
                 callbackVars, threads>>

\* A reset that also restores the capture cells.
CellsCleared(c) == [x \in DOMAIN c |-> InitCell]

\* resetCapture() writes no capture cell.
CellsAfterReset(c) == c

\* matcher.resetCapture() called by the driver.
ResetCall ==
  /\ Built
  /\ status = "ok"
  /\ \E m \in Callable :
       /\ captured' = resetCapture(captured, m)
       /\ last' = [NoCall EXCEPT
                     !.op = "reset", !.m = m,
                     !.had = {x \in Matchers :
                                captured[x] # Null /\
                                resetCapture(captured, m)[x] = Null}]
  /\ cells' = CellsAfterReset(cells)
  /\ UNCHANGED <<predicates, nestedCapturingMatchers, program, scope, pc,
                 status, probe,
                 callbackVars, threads>>

Next ==
  \/ AddPredicate
  \/ AttachNested
  \/ AttachAllTilable
  \/ MatchCall
  \/ ResetCall

Spec == Init /\ [][Next]_vars

\* The client that builds its matchers with makeReductionMatcher, and the
\* client with a subset-aware user matcher, on all four functions.
InitReduction ==
  /\ InitMatchers
  /\ program \in {ProgReduction, ProgConsumer}
  /\ scope \in Funcs
  /\ probe = NoProbe

NextReduction ==
  \/ AddPredicate
  \/ AttachNested
  \/ AttachAllTilable
  \/ CopyAssign
  \/ MatchCall
  \/ ResetCall

SpecReduction == InitReduction /\ [][NextReduction]_vars

\* The client that builds its matchers with makeSplitReductionMatcher, and
\* the client that goes on attaching after the exhaustiveness predicate.
InitSplit ==
  /\ InitMatchers
  /\ program \in {ProgSplit, ProgAfter}
  /\ scope \in Funcs
  /\ probe = NoProbe

NextSplit ==
  \/ AddPredicate
  \/ AttachNested
  \/ AttachAllTilable
  \/ MatchCall
  \/ ResetCall

SpecSplit == InitSplit /\ [][NextSplit]_vars

-----------------------------------------------------------------------------
(* The predicates taken alone: one predicate applied to one synthetic      *)
(* operation, for all operations and arguments within the bounds.          *)

\* What a dimension of a synthetic operation can be.
DimChoices == {[it |-> "parallel", size |-> 4], [it |-> "reduction", size |-> Dyn]}

\* The structured operations of rank 0..MaxRank.
DimOps ==
  UNION {{Linalg("generic", Null, <<>>, <<>>,
                 [j \in 1..r |-> f[j].it], [j \in 1..r |-> f[j].size],
                 <<>>, <<>>) : f \in [1..r -> DimChoices]} : r \in 0..MaxRank}

\* The structured operations with 0..MaxArity inputs and outputs, their
\* operands all distinct, with tensor results (one per output) or none.
PosOps ==
  UNION {{[Linalg("generic", Null,
                  [j \in 1..a |-> Arg(1, j - 1)],
                  [j \in 1..b |-> Arg(1, MaxArity + j - 1)],
                  <<>>, <<>>, <<>>, <<>>) EXCEPT !.nres = k] : k \in {0, b}} :
         a \in 0..MaxArity, b \in 0..MaxArity}

\* The dimension indices and operand positions tried: in range, and out of
\* range on both sides.
Indices == (-(MaxRank + 1))..MaxRank
Positions == (-(MaxArity + 1))..MaxArity

\* The dimension lists tried: up to MaxDims indices, ascending.
RECURSIVE ListsFrom(_, _)
ListsFrom(low, len) ==
  IF len = 0 THEN {<<>>}
  ELSE {<<>>} \cup
       UNION {{<<i>> \o rest : rest \in ListsFrom(i + 1, len - 1)} :
              i \in {i \in Indices : i >= low}}
IndexLists == ListsFrom(-(MaxRank + 1), MaxDims)

NoLoc == [at |-> "none", idx |-> 0]
NoValue == [k |-> "none", op |-> 0, i |-> 0]

\* The probe before a predicate is applied to operation o.
Fresh(kind, o) ==
  [kind |-> kind, o |-> o, pred |-> "none", pos |-> 0, dims |-> <<>>,
   what |-> "", value |-> 0, r |-> FALSE, oob |-> FALSE, writes |-> FALSE,
   loc |-> NoLoc, val |-> NoValue]

Rest == <<predicates, nestedCapturingMatchers, captured, cells, program,
          scope, pc, status, last, callbackVars, threads>>

InitProbe(kind, ops) ==
  /\ InitMatchers
  /\ program = <<>>
  /\ scope = 1
  /\ probe \in {Fresh(kind, o) : o \in ops}

InitDim == InitProbe("dim", DimOps)
InitPos == InitProbe("pos", PosOps)

Unapplied(kind) == probe.kind = kind /\ probe.pred = "none"

\* What an access outside the loop ranges can read.
GarbageInts == {g.int : g \in Garbage}
ReadOf(res) == IF res.oob THEN GarbageInts ELSE {Dyn}

ApplyDimShape ==
  /\ Unapplied("dim")
  /\ \E dimensions \in IndexLists, kind \in {"Static", "Dynamic"} :
       probe' = [probe EXCEPT !.pred = "dimShape", !.dims = dimensions,
                              !.what = kind,
                              !.r = DimShape(probe.o, dimensions, kind)]
  /\ UNCHANGED Rest

ApplyDimAllShape ==
  /\ Unapplied("dim")
  /\ \E kind \in {"Static", "Dynamic"} :
       probe' = [probe EXCEPT !.pred = "dimAllShape", !.what = kind,
                              !.r = DimAllShape(probe.o, kind)]
  /\ UNCHANGED Rest

ApplyDimIter ==
  /\ Unapplied("dim")
  /\ \E dimensions \in IndexLists, kind \in {"parallel", "reduction"} :
       probe' = [probe EXCEPT !.pred = "dimIter", !.dims = dimensions,
                              !.what = kind,
                              !.r = DimIter(probe.o, dimensions, kind)]
  /\ UNCHANGED Rest

ApplyDimExcept ==
  /\ Unapplied("dim")
  /\ \E excluded \in IndexLists, kind \in {"parallel", "reduction"} :
       probe' = [probe EXCEPT !.pred = "dimExcept", !.dims = excluded,
                              !.what = kind,
                              !.r = DimExcept(probe.o, excluded, kind)]
  /\ UNCHANGED Rest

DivisibleApplied(dimension, value, res) ==
  probe' = [probe EXCEPT !.pred = "dimDiv", !.pos = dimension,
                         !.value = value, !.r = res.r, !.oob = res.oob]

ApplyDimDivisible ==
  /\ Unapplied("dim")
  /\ \E dimension \in Indices, value \in {2, 3} :
       \E g \in ReadOf(DimDivisible(probe.o, dimension, value, Dyn)) :
          DivisibleApplied(dimension, value,
                           DimDivisible(probe.o, dimension, value, g))
  /\ UNCHANGED Rest

CaptureApplied(dimension, res) ==
  probe' = [probe EXCEPT !.pred = "capDim", !.pos = dimension,
                         !.value = IF res.writes THEN res.value ELSE InitCell,
                         !.writes = res.writes,
                         !.r = res.r, !.oob = res.oob]

ApplyDimCapture ==
  /\ Unapplied("dim")
  /\ \E dimension \in Indices :
       \E g \in ReadOf(DimCapture(probe.o, dimension, Dyn)) :
          CaptureApplied(dimension, DimCapture(probe.o, dimension, g))
  /\ UNCHANGED Rest

NextDim ==
  \/ ApplyDimShape
  \/ ApplyDimAllShape
  \/ ApplyDimIter
  \/ ApplyDimExcept
  \/ ApplyDimDivisible
  \/ ApplyDimCapture

SpecDim == InitDim /\ [][NextDim]_vars

\* A positional predicate applied: where its position resolved to (loc)
\* and the operand or result it goes on with (val), if it is one of the list.
Positioned(pred, position, loc, list) ==
  probe' = [probe EXCEPT !.pred = pred, !.pos = position, !.loc = loc,
                         !.oob = loc.at = "oob",
                         !.val = IF loc.at = "in" THEN list[loc.idx + 1]
                                 ELSE NoValue]

ApplyInput ==
  /\ Unapplied("pos")
  /\ \E position \in Positions :
       Positioned("input", position, InputOperandAt(probe.o, position),
                  probe.o.ins)
  /\ UNCHANGED Rest

ApplyOutput ==
  /\ Unapplied("pos")
  /\ \E position \in Positions :
       Positioned("output", position, OutputOperandAt(probe.o, position),
                  probe.o.outs)
  /\ UNCHANGED Rest

ApplyOutputSubset ==
  /\ Unapplied("pos")
  /\ \E position \in Positions :
       Positioned("outputSub", position,
                  OutputSubsetOperandAt(probe.o, position), probe.o.outs)
  /\ UNCHANGED Rest

\* The results of a synthetic operation (it is operation 1 of no graph).
ApplyResult ==
  /\ Unapplied("pos")
  /\ \E position \in Positions :
       Positioned("result", position, ResultAt(probe.o, position),
                  [j \in 1..probe.o.nres |-> ResultValue(1, j - 1)])
  /\ UNCHANGED Rest

NextPos ==
  \/ ApplyInput
  \/ ApplyOutput
  \/ ApplyOutputSubset
  \/ ApplyResult

SpecPos == InitPos /\ [][NextPos]_vars

-----------------------------------------------------------------------------
(* MatchCallbackResult: a list of lists of payload operations, kept flat.  *)

matcherVars == <<predicates, nestedCapturingMatchers, captured, cells,
                 program, scope, pc, status, last>>

\* The operations a callback reports, and the ranges it passes.
PayloadOps == {2, 3}
Ranges == UNION {[1..k -> PayloadOps] : k \in 0..MaxGroupLen}

\* getNumPayloadGroups()
getNumPayloadGroups == Len(payloadGroupLengths)

\* "for (i = 0; i < position; ++i) start += payloadGroupLengths[i];"
RECURSIVE StartOf(_, _)
StartOf(lengths, position) ==
  IF position = 0 THEN 0
  ELSE StartOf(lengths, position - 1) + lengths[position]

\* A lookup that slices every group from the start of the flat list.
getPayloadGroupFromZero(position) ==
  SubSeq(payloadOperations, 1, payloadGroupLengths[position + 1])

\* getPayloadGroup(position), for position < getNumPayloadGroups():
\* makeArrayRef(payloadOperations).slice(start, length)
getPayloadGroup(position) ==
  SubSeq(payloadOperations,
         StartOf(payloadGroupLengths, position) + 1,
         StartOf(payloadGroupLengths, position)
           + payloadGroupLengths[position + 1])

\* addPayloadGroup(operations), made by the call `call` of the client.
addPayloadGroup(operations, call) ==
  /\ payloadOperations' = payloadOperations \o operations
  /\ payloadGroupLengths' =
       Append(payloadGroupLengths,
              Len(payloadOperations \o operations) - Len(payloadOperations))
  /\ calls' = Append(calls, call)
  /\ UNCHANGED <<matcherVars, probe, callbacks, threads>>

\* addPayloadGroup(operations) called with a range without null operation.
AddPayloadGroup ==
  /\ getNumPayloadGroups < MaxGroups
  /\ \E operations \in Ranges :
       addPayloadGroup(operations, [fn |-> "group", arg |-> operations])

\* addPotentiallyEmptyPayloadGroup(op)
AddPotentiallyEmptyPayloadGroup ==
  /\ getNumPayloadGroups < MaxGroups
  /\ \E op \in PayloadOps \cup {Null} :
       IF op = Null
       THEN addPayloadGroup(<<>>, [fn |-> "optional", arg |-> op])
       ELSE addPayloadGroup(<<op>>, [fn |-> "optional", arg |-> op])

InitIdle ==
  /\ InitMatchers
  /\ program = <<>>
  /\ scope = 1
  /\ probe = NoProbe

NextResult == AddPayloadGroup \/ AddPotentiallyEmptyPayloadGroup

SpecResult == InitIdle /\ [][NextResult]_vars

-----------------------------------------------------------------------------
(* MatchCallbacksRegistry: callbacks by name.                              *)

Names == {"reduction", "split_reduction", "convolution"}
Callbacks == {"fn1", "fn2"}
\* What get returns for a name that is not present.
NoCallback == "nullptr"

\* An insertion that overwrites the entry of a name already present.
insertOrAssign(map, name, fn) ==
  [map |-> [n \in DOMAIN map \cup {name} |->
              IF n = name THEN fn ELSE map[n]],
   second |-> name \notin DOMAIN map]

\* callbacks.try_emplace(name, fn): the map after the call, and whether the
\* entry was inserted.
tryEmplace(map, name, fn) ==
  IF name \in DOMAIN map THEN [map |-> map, second |-> FALSE]
  ELSE [map |-> [n \in DOMAIN map \cup {name} |->
                   IF n = name THEN fn ELSE map[n]],
        second |-> TRUE]

\* get(name)
get(name) ==
  IF name \notin DOMAIN callbacks THEN NoCallback ELSE callbacks[name]

\* registerCallback(name, fn).  assert(succeeded) ends the program in a
\* build with assertions and is compiled out in a build without them.
RegisterCallback ==
  /\ status = "ok"
  /\ Len(calls) < MaxRegistrations
  /\ \E name \in Names, fn \in Callbacks :
       /\ callbacks' = tryEmplace(callbacks, name, fn).map
       /\ calls' = Append(calls, [fn |-> "register", name |-> name,
                                  arg |-> fn])
       /\ status' \in IF tryEmplace(callbacks, name, fn).second
                      THEN {"ok"} ELSE {"aborted", "ok"}
  /\ UNCHANGED <<predicates, nestedCapturingMatchers, captured, cells,
                 program, scope, pc, last, probe, payloadOperations,
                 payloadGroupLengths, threads>>

\* get(name) called by the client, which keeps what it returned.
Get ==
  /\ status = "ok"
  /\ \E name \in Names :
       probe' = [kind |-> "get", name |-> name, fn |-> get(name)]
  /\ UNCHANGED Rest

NextRegistry == RegisterCallback \/ Get

SpecRegistry == InitIdle /\ [][NextRegistry]_vars

-----------------------------------------------------------------------------
(* Two threads evaluating match of the anchor of makeReductionMatcher on   *)
(* different candidates at once.  The threads either share the one group   *)
(* of matchers with its captures, or each has a group and a               *)
(* MatchedReductionCaptures of its own, built the same way.  A thread      *)
(* takes one step per predicate of the anchor.                            *)

Threads == {1, 2}

\* The structured operations of the functions that hold a reduction.
ThreadCandidates ==
  {n \in Nodes : IsLinalg(n) /\ ParentFunc(n) \in {4, 17, 22, 26}}

FreshCaptured == [m \in Matchers |-> Null]
FreshCells == [c \in Cells |-> InitCell]

\* A thread about to evaluate predicate 1 of the anchor on candidate n.
Thread(n) == [n |-> n, i |-> 1, done |-> FALSE, r |-> FALSE]

\* A second thread that is handed the storage of the first.
SharedAnyway(t) ==
  [captured |-> IF threads.shared THEN captured ELSE threads.captured[1],
   cells |-> IF threads.shared THEN cells ELSE threads.cells[1],
   trace |-> <<>>, oob |-> FALSE, status |-> "ok"]

\* The captures thread t reads and writes: `captured` of the matchers and
\* the fields of the MatchedReductionCaptures its predicates refer to.
StoreOf(t) ==
  [captured |-> IF threads.shared THEN captured ELSE threads.captured[t],
   cells |-> IF threads.shared THEN cells ELSE threads.cells[t],
   trace |-> <<>>, oob |-> FALSE, status |-> "ok"]

\* Two threads start, after the matchers were built and before any match.
Spawn ==
  /\ Built
  /\ threads = NoThreads
  /\ \E shared \in BOOLEAN, n1 \in ThreadCandidates, n2 \in ThreadCandidates :
       /\ n1 # n2
       /\ threads' = [shared |-> shared,
                      of |-> <<Thread(n1), Thread(n2)>>,
                      captured |-> <<FreshCaptured, FreshCaptured>>,
                      cells |-> <<FreshCells, FreshCells>>]
  /\ UNCHANGED <<matcherVars, probe, callbackVars>>

\* What thread t leaves after a step: its position and the captures `st`.
Left(t, th, st) ==
  /\ threads' =
       [threads EXCEPT
          !.of[t] = th,
          !.captured[t] = IF threads.shared THEN @ ELSE st.captured,
          !.cells[t] = IF threads.shared THEN @ ELSE st.cells]
  /\ captured' = IF threads.shared THEN st.captured ELSE captured
  /\ cells' = IF threads.shared THEN st.cells ELSE cells

\* all_of moves to the next predicate or stops at a false one.
Advanced(t, res) ==
  Left(t,
       IF res.r THEN [threads.of[t] EXCEPT !.i = @ + 1]
       ELSE [threads.of[t] EXCEPT !.done = TRUE, !.r = FALSE],
       res.st)

\* "captured = linalgOp; return true"
Completed(t, st) ==
  Left(t, [threads.of[t] EXCEPT !.done = TRUE, !.r = TRUE],
       [st EXCEPT !.captured[Reduction] = threads.of[t].n])

\* One step of match in thread t.
ThreadStep ==
  /\ threads # NoThreads
  /\ \E t \in Threads :
       /\ ~threads.of[t].done
       /\ IF threads.of[t].i > Len(predicates[Reduction])
          THEN Completed(t, StoreOf(t))
          ELSE Advanced(t, EvalPred(predicates[Reduction][threads.of[t].i],
                                    threads.of[t].n, StoreOf(t), NoGarbage))
  /\ UNCHANGED <<predicates, nestedCapturingMatchers, program, scope, pc,
                 status, last, probe, callbackVars>>

InitThreads ==
  /\ InitMatchers
  /\ program = ProgReduction
  /\ scope = 4
  /\ probe = NoProbe

NextThreads ==
  \/ AddPredicate
  \/ AttachNested
  \/ AttachAllTilable
  \/ CopyAssign
  \/ Spawn
  \/ ThreadStep

SpecThreads == InitThreads /\ [][NextThreads]_vars

-----------------------------------------------------------------------------
(* The two subset traversals applied to one value of the payload IR.       *)

\* The values of the payload IR: the results of the operations and the
\* block arguments that are used.
GraphValues ==
  {ResultValue(n, 0) : n \in {x \in Nodes : Op[x].nres > 0}}
    \cup {UseList[j].v : j \in 1..Len(UseList)}

InitTraverse ==
  /\ InitMatchers
  /\ program = <<>>
  /\ scope = 1
  /\ probe \in {[kind |-> "trav", val |-> v, fn |-> "none", r |-> Null] :
                  v \in GraphValues}

ApplyBackwards ==
  /\ probe.kind = "trav" /\ probe.fn = "none"
  /\ probe' = [probe EXCEPT !.fn = "backwards",
                            !.r = traverseSubsetsBackwards(probe.val)]
  /\ UNCHANGED Rest

ApplyForwardAnyUse ==
  /\ probe.kind = "trav" /\ probe.fn = "none"
  /\ probe' = [probe EXCEPT !.fn = "forward",
                            !.r = traverseSubsetsForwardAnyUse(probe.val)]
  /\ UNCHANGED Rest

NextTraverse == ApplyBackwards \/ ApplyForwardAnyUse

SpecTraverse == InitTraverse /\ [][NextTraverse]_vars

-----------------------------------------------------------------------------
(* Properties of match and resetCapture.                                   *)

\* The events of the predicates of the matcher the last call was made on.
Own == SelectSeq(last.trace, LAMBDA e : e.m = last.m /\ e.i > 0)
\* Whether matcher x finished a successful match during the last call, and
\* the operation of its last successful match of that call.
Successes(x) == SelectSeq(last.trace, LAMBDA e : e.m = x /\ e.i = 0 /\ e.r)
CapturedNow(x) ==
  IF Successes(x) = <<>> THEN Null ELSE Successes(x)[Len(Successes(x))].n
\* The predicates of the matchers of a tree that write a capture cell.
CellsIn(x) ==
  {predicates[x][j].val :
     j \in {j \in 1..Len(predicates[x]) :
              predicates[x][j].t \in {"capRank", "capDim"}}}
CellsOf(m) == UNION {CellsIn(x) : x \in Tree(m)}

\* C1: match evaluates the predicates of the matcher in registration order
\* (the j-th predicate evaluated is the j-th registered) and stops at the
\* first that returns false: every predicate evaluated before the last one
\* returned true, nothing at all runs after a predicate that returned false
\* (the only later event is the end of the match itself), and when none
\* returned false every registered predicate was evaluated.
C1_InOrderShortCircuit ==
  (last.op = "match" /\ IsLinalg(last.n)) =>
     /\ \A j \in 1..Len(Own) :
          /\ Own[j].i = j
          /\ j < Len(Own) => Own[j].r
     /\ \A k \in 1..Len(last.trace) :
          (last.trace[k].m = last.m /\ last.trace[k].i > 0 /\ ~last.trace[k].r)
             => /\ k = Len(last.trace) - 1
                /\ last.trace[Len(last.trace)] =
                     Event(last.m, 0, last.n, FALSE)
     /\ (status = "ok" /\ \A j \in 1..Len(Own) : Own[j].r)
           => Len(Own) = Len(predicates[last.m])

\* A match stopped at a false predicate that is followed by a predicate
\* with a side effect (a capture, or a nested matcher).
C1_Witness ==
  /\ last.op = "match"
  /\ Own # <<>>
  /\ ~Own[Len(Own)].r
  /\ Len(Own) < Len(predicates[last.m])
  /\ predicates[last.m][Len(Own) + 1].t \in
       NestingKinds \cup {"capRank", "capDim"}

\* C2: a match call that returns does so with true exactly when the
\* candidate is a structured op and every predicate of the matcher was
\* evaluated and returned true; for a candidate that is no structured op no
\* predicate is run; on true the captured node of the matcher is the
\* candidate, on false it is what it was before the call.
C2_ResultAndOwnCapture ==
  [][(last'.op = "match" /\ status' = "ok") =>
        /\ last'.r <=>
             /\ IsLinalg(last'.n)
             /\ Len(Own') = Len(predicates[last'.m])
             /\ \A j \in 1..Len(Own') : Own'[j].r
        /\ ~IsLinalg(last'.n) => Len(last'.trace) = 1
        /\ last'.r => captured'[last'.m] = last'.n
        /\ ~last'.r => captured'[last'.m] = captured[last'.m]]_vars

\* A failed match of a structured candidate on a matcher that holds an
\* earlier capture of another operation.
C2_Witness ==
  /\ last.op = "match"
  /\ ~last.r
  /\ IsLinalg(last.n)
  /\ captured[last.m] \notin {Null, last.n}

\* C3 as claimed: after any successful match, every matcher nested in the
\* matcher (at any depth) holds the operation it captured during this call,
\* or nothing: none holds a node captured by an earlier call.
C3_NoEarlierCapture ==
  (last.op = "match" /\ last.r) =>
     \A x \in Reach(last.m) : captured[x] = CapturedNow(x)

\* C3 amended: the same, for a successful match that started with no
\* matcher of the tree holding a capture (as resetCapture leaves it).
C3_NoEarlierCaptureAfterReset ==
  (last.op = "match" /\ last.r /\ last.fresh) =>
     \A x \in Reach(last.m) : captured[x] = CapturedNow(x)

\* A successful match from a reset tree, in which one nested matcher
\* captured and another, optional one, did not.
C3_Witness ==
  /\ last.op = "match" /\ last.r /\ last.fresh
  /\ \E x, y \in Reach(last.m) : captured[x] # Null /\ captured[y] = Null
  /\ \E c \in Cells : cells[c] # InitCell

\* C4: every match call returns (the evaluation always completes).
C4_MatchReturns == status # "hung"

\* C5: after M.resetCapture(), M and every matcher nested in M at any depth
\* (also one attached to a nested matcher after the nested matcher was
\* attached to M) hold no captured operation.
C5_ResetClearsTree ==
  last.op = "reset" => \A x \in Tree(last.m) : captured[x] = Null

\* A reset that cleared the capture of a matcher that is nested in M only
\* through a later attachment: it is not in M's own list.
C5_Witness ==
  /\ last.op = "reset"
  /\ \E x \in last.had \cap Reach(last.m) :
        \A j \in 1..Len(nestedCapturingMatchers[last.m]) :
           nestedCapturingMatchers[last.m][j] # x

\* C6 as claimed: after M.resetCapture() every capture cell bound to a
\* predicate of M or of a matcher nested in M holds its pre-match value.
C6_ResetRestoresCells ==
  last.op = "reset" => \A c \in CellsOf(last.m) : cells[c] = InitCell

\* C6 amended: resetCapture leaves every capture cell as it is.
C6_ResetKeepsCells ==
  [][last'.op = "reset" => cells' = cells]_vars

\* A reset after which a capture cell of the tree still holds the value a
\* match wrote.
C6_Witness ==
  /\ last.op = "reset"
  /\ last.had # {}
  /\ \E c \in CellsOf(last.m) : cells[c] # InitCell

\* The exhaustiveness predicate is attached to no matcher nested in m, and
\* to m itself at most as its last predicate.
CheckOnlyLastOnRoot(m) ==
  /\ \A x \in Reach(m) : \A j \in 1..Len(predicates[x]) :
        predicates[x][j].t # "allTilable"
  /\ \A j \in 1..(Len(predicates[m]) - 1) : predicates[m][j].t # "allTilable"

-----------------------------------------------------------------------------
(* Properties of the predicates taken alone.                               *)

\* C8: output(position, SubsetOf) resolves and bounds-checks the position
\* as output(position, matcher) does, and goes on with the same output
\* operand, whatever the number of inputs.
C8_SubsetOutputAsPlainOutput ==
  probe.pred = "outputSub" =>
     /\ probe.loc = OutputOperandAt(probe.o, probe.pos)
     /\ probe.loc.at = "in" => probe.val = probe.o.outs[probe.loc.idx + 1]

\* Whether index i is out of range for the operation probed.
OutOfRange(i) == i >= Rank(probe.o) \/ i < -Rank(probe.o)
ProbedIndices ==
  IF probe.pred \in {"dimDiv", "capDim"} THEN {probe.pos}
  ELSE {probe.dims[j] : j \in 1..Len(probe.dims)}

\* C9: a dimension predicate given an index that is out of range (index >=
\* rank or index < -rank) returns false and reads nothing outside the
\* dimension list.
C9_OutOfRangeIsFalse ==
  (probe.pred \in {"dimShape", "dimIter", "dimExcept", "dimDiv", "capDim"}
   /\ \E i \in ProbedIndices : OutOfRange(i))
     => (~probe.r /\ ~probe.oob)

\* The index that names the same dimension counting from the first.
FromFirst(i) == IF i < 0 THEN Rank(probe.o) + i ELSE i
ListFromFirst == [j \in 1..Len(probe.dims) |-> FromFirst(probe.dims[j])]

\* C10: with every index i in range (-r <= i < r), a dimension predicate
\* returns for a negative i what it returns for r+i; and AllDimsExcept(E)
\* is true exactly when every dimension d of 0..r-1 with neither d nor d-r
\* in E has the iterator type asked for, whatever E holds.
C10_NegativeCountsFromLast ==
  /\ (probe.pred \in {"dimShape", "dimIter", "dimDiv", "capDim"}
      /\ \A i \in ProbedIndices : ~OutOfRange(i))
       => CASE probe.pred = "dimShape" ->
                 probe.r = DimShape(probe.o, ListFromFirst, probe.what)
            [] probe.pred = "dimIter" ->
                 probe.r = DimIter(probe.o, ListFromFirst, probe.what)
            [] probe.pred = "dimDiv" ->
                 /\ ~probe.oob
                 /\ probe.r = DimDivisible(probe.o, FromFirst(probe.pos),
                                           probe.value, Dyn).r
            [] probe.pred = "capDim" ->
                 /\ ~probe.oob /\ probe.r /\ probe.writes
                 /\ probe.value = probe.o.sizes[FromFirst(probe.pos) + 1]
  /\ probe.pred = "dimExcept" =>
       probe.r =
         \A d \in 0..(Rank(probe.o) - 1) :
            (d \in ProbedIndices \/ (d - Rank(probe.o)) \in ProbedIndices)
            \/ probe.o.iters[d + 1] = probe.what

\* AllDimsExcept({-1}, parallel) holds of a rank-4 operation whose last
\* dimension is a reduction: dimension 3 was skipped.
C10_Witness ==
  /\ Rank(probe.o) = 4
  /\ probe.o.iters[4] = "reduction"
  /\ probe.pred = "dimExcept"
  /\ probe.dims = <<-1>>
  /\ probe.what = "parallel"
  /\ probe.r

-----------------------------------------------------------------------------
(* Properties of the nested-matcher predicates, read off the last call.    *)

\* The places in the trace of the predicates of the matcher called, the
\* predicate evaluated at place k, and what ran while it was evaluated:
\* the events after the preceding predicate of that matcher.
OwnAt ==
  {k \in 1..Len(last.trace) :
     last.trace[k].m = last.m /\ last.trace[k].i > 0}
PredAt(k) == predicates[last.m][last.trace[k].i]
PrevOwn(k) ==
  IF \E j \in OwnAt : j < k
  THEN CHOOSE j \in OwnAt : j < k /\ \A j2 \in OwnAt : j2 < k => j2 <= j
  ELSE 0
Seg(k) == SubSeq(last.trace, PrevOwn(k) + 1, k - 1)
\* The calls of match on the nested matcher of the predicate at place k.
NestedRuns(k) ==
  SelectSeq(Seg(k), LAMBDA e : e.m = PredAt(k).m /\ e.i = 0)
\* The operand or result the predicate at place k inspects, when its
\* position is within the list.
InBounds(k) == Located(PredAt(k), Op[last.n]).at = "in"
Inspected(k) ==
  LET idx == Located(PredAt(k), Op[last.n]).idx
  IN CASE PredAt(k).t \in {"input", "inputSub"} -> Op[last.n].ins[idx + 1]
       [] PredAt(k).t \in {"output", "outputSub"} -> Op[last.n].outs[idx + 1]
       [] OTHER -> ResultValue(last.n, idx)

\* C11: a positional input or output predicate whose operand has a producer
\* runs its nested matcher on the producer, once, optional or not, and
\* returns (nested match succeeded) or optional; and every matcher a
\* predicate runs is in the nested-matcher list of the matcher that owns the
\* predicate.
C11_ProducerAlwaysMatched ==
  /\ last.op = "match" =>
       \A k \in OwnAt :
          (PredAt(k).t \in {"input", "output"} /\ InBounds(k)
           /\ DefiningOp(Inspected(k)) # Null)
            => /\ Len(NestedRuns(k)) = 1
               /\ NestedRuns(k)[1].n = DefiningOp(Inspected(k))
               /\ last.trace[k].r = (NestedRuns(k)[1].r \/ PredAt(k).opt)
  /\ \A m \in Matchers : \A j \in 1..Len(predicates[m]) :
        predicates[m][j].t \in NestingKinds
          => \E i \in 1..Len(nestedCapturingMatchers[m]) :
                nestedCapturingMatchers[m][i] = predicates[m][j].m

\* A mandatory and an optional input predicate ran their matchers on the
\* producer in one call, and the matcher of the optional one did not match
\* or the mandatory one did.
C11_Witness ==
  /\ last.op = "match"
  /\ \E k \in OwnAt :
        /\ PredAt(k).t = "input" /\ ~PredAt(k).opt /\ InBounds(k)
        /\ DefiningOp(Inspected(k)) # Null
        /\ NestedRuns(k)[1].r
  /\ \E k \in OwnAt :
        /\ PredAt(k).t = "input" /\ PredAt(k).opt /\ InBounds(k)
        /\ DefiningOp(Inspected(k)) # Null

\* C12: an input predicate at a position within the list whose operand is a
\* block argument returns its optional flag and runs nothing, so that a
\* matcher no predicate of the call matched keeps its captured operation.
C12_NoProducerGivesOptional ==
  [][last'.op = "match" =>
       \A k \in OwnAt' :
          (PredAt(k)'.t = "input" /\ InBounds(k)'
           /\ DefiningOp(Inspected(k)') = Null)
            => /\ last'.trace[k].r = PredAt(k)'.opt
               /\ Seg(k)' = <<>>
               /\ \A x \in Matchers :
                     (x = PredAt(k)'.m /\ Successes(x)' = <<>>)
                       => captured'[x] = captured[x]]_vars

\* An optional input predicate on a block argument returned true and left
\* its matcher with the operation it had captured before.
C12_Witness ==
  /\ last.op = "match"
  /\ \E k \in OwnAt :
        /\ PredAt(k).t = "input" /\ PredAt(k).opt /\ InBounds(k)
        /\ DefiningOp(Inspected(k)) = Null
        /\ last.trace[k].r
        /\ captured[PredAt(k).m] # Null

\* The number of operands or results a positional predicate counts against.
ArityProbed ==
  CASE probe.pred = "input" -> Len(probe.o.ins)
    [] probe.pred = "output" -> Len(probe.o.outs)
    [] OTHER -> probe.o.nres

C14_FirstMatchingUser ==
  last.op = "match" =>
     \A k \in OwnAt :
        (PredAt(k).t = "result" /\ InBounds(k))
          => LET users == UsersOf(Inspected(k))
                 runs == NestedRuns(k)
                 matched == runs # <<>> /\ runs[Len(runs)].r
             IN /\ Len(runs) <= Len(users)
                /\ \A j \in 1..Len(runs) :
                     /\ runs[j].n = users[j]
                     /\ j < Len(runs) => ~runs[j].r
                /\ ~matched => Len(runs) = Len(users)
                /\ last.trace[k].r = (matched \/ PredAt(k).opt)
                /\ (matched /\ Len(Successes(PredAt(k).m)) = 1)
                     => captured[PredAt(k).m] = runs[Len(runs)].n

\* The matcher was tried on a user it did not match, then matched the next
\* user.
C14_Witness ==
  /\ last.op = "match"
  /\ \E k \in OwnAt :
        /\ PredAt(k).t = "result" /\ InBounds(k)
        /\ Len(NestedRuns(k)) = 2
        /\ ~NestedRuns(k)[1].r
        /\ NestedRuns(k)[2].r
        /\ captured[PredAt(k).m] = UsersOf(Inspected(k))[2]

\* The real consumers of a value: its users, looking through the slices
\* to the users of their results.
RECURSIVE RealConsumers(_)
ConsumersThrough(use) ==
  IF Op[use.owner].kind = "slice" THEN RealConsumers(Res(use.owner))
  ELSE {use.owner}
RealConsumers(v) ==
  UNION {ConsumersThrough(UsesOf(v)[j]) : j \in 1..Len(UsesOf(v))}

\* Whether matcher m matches operation c in the current state.
Accepts(m, c) == Match(m, c, Start, NoGarbage).r

\* C15: the subset-aware result predicate at a position within the results
\* returns true iff some real consumer of the result, reached forward
\* through transparent operations, is matched by the nested matcher, or
\* optional is enabled (stated for results no foreach_thread consumes).
C15_SomeRealConsumerMatches ==
  last.op = "match" =>
     \A k \in OwnAt :
        (PredAt(k).t = "resultSub" /\ InBounds(k)
         /\ \A c \in RealConsumers(Inspected(k)) : Op[c].kind # "foreach")
          => last.trace[k].r =
               ((\E c \in RealConsumers(Inspected(k)) :
                    Accepts(PredAt(k).m, c))
                \/ PredAt(k).opt)

\* The tileable operations of a function, and the operations captured by
\* the nested matchers registered on matcher m.
TilableIn(f) == {x \in Nodes : IsTilable(x) /\ IsNestedIn(x, f)}
RegisteredCaptures(m) ==
  {captured[nestedCapturingMatchers[m][j]] :
     j \in 1..Len(nestedCapturingMatchers[m])} \ {Null}

\* C16: the exhaustiveness predicate, added after the predicates that nest a
\* matcher, returns true iff the candidate is in a function and the number
\* of tileable operations of that function is the cardinality of the
\* candidate united with the non-null captured operations of the nested
\* matchers registered on the matcher; with a tileable operation in the
\* function that no matcher of a fresh tree captured it returns false.
C16_AllTilableCounted ==
  last.op = "match" =>
     \A k \in OwnAt :
        (PredAt(k).t = "allTilable"
         /\ last.trace[k].i = Len(predicates[last.m]))
          => /\ last.trace[k].r =
                  (/\ ParentFunc(last.n) # Null
                   /\ Cardinality(TilableIn(ParentFunc(last.n))) =
                        Cardinality({last.n} \cup RegisteredCaptures(last.m)))
             /\ (last.fresh
                 /\ \E t \in TilableIn(ParentFunc(last.n)) :
                       t \notin {last.n} \cup RegisteredCaptures(last.m))
                  => ~last.trace[k].r

\* Every other predicate of the anchor succeeded on a fresh tree, a
\* tileable operation of the function was captured by no matcher, and the
\* exhaustiveness predicate returned false.
C16_Witness ==
  /\ last.op = "match" /\ last.fresh /\ ~last.r
  /\ Len(Own) = Len(predicates[last.m])
  /\ Len(Own) > 1
  /\ predicates[last.m][Len(Own)].t = "allTilable"
  /\ \A j \in 1..(Len(Own) - 1) : Own[j].r
  /\ \E t \in TilableIn(ParentFunc(last.n)) :
        t \notin {last.n} \cup RegisteredCaptures(last.m)

\* A successful match of the anchor of makeReductionMatcher.
AnchorMatched ==
  /\ program = ProgReduction
  /\ last.op = "match" /\ last.m = Reduction /\ last.r

\* C17: a successful match of the anchor of makeReductionMatcher on a fresh
\* tree certifies coverage: every tileable operation of the function of the
\* candidate is captured by leading, fill, reduction or trailing.
C17_SuccessCertifiesCoverage ==
  (AnchorMatched /\ last.fresh)
    => TilableIn(ParentFunc(last.n)) \subseteq
         {captured[x] : x \in {Leading, Fill, Reduction, Trailing}}

\* The anchor matched on a fresh tree in a function with four tileable
\* operations, each captured by one of the four matchers.
C17_Witness ==
  /\ AnchorMatched /\ last.fresh
  /\ Cardinality(TilableIn(ParentFunc(last.n))) = 4
  /\ \A x \in {Leading, Fill, Reduction, Trailing} : captured[x] # Null

\* C18: after a successful match of the anchor that captured a leading and
\* a trailing operation, maybeLeadingRank is the rank of the leading
\* operation and maybeTrailingRank the rank of the trailing operation.
C18_LeadingAndTrailingRanks ==
  (AnchorMatched /\ CapturedNow(Leading) # Null
   /\ CapturedNow(Trailing) # Null)
    => /\ cells[MaybeLeadingRank] = Rank(Op[captured[Leading]])
       /\ cells[MaybeTrailingRank] = Rank(Op[captured[Trailing]])

\* C19 as stated: the anchor accepts a reduction only if the access map of
\* its single output is a permutation.
C19_OutputIsPermutation ==
  AnchorMatched
    => /\ Len(Op[last.n].outMaps) = 1
       /\ Op[last.n].outMaps[1] = "perm"

\* C19: the anchor accepts a reduction only if its single input and its
\* single output have projected-permutation access maps, and its predicate
\* on the output maps accepts exactly the outputs whose maps are all
\* projected permutations, permutations or not.
C19_OutputIsProjectedPermutation ==
  /\ AnchorMatched
       => /\ Len(Op[last.n].ins) = 1 /\ Len(Op[last.n].outs) = 1
          /\ Op[last.n].inMaps[1] \in {"perm", "proj"}
          /\ Op[last.n].outMaps[1] \in {"perm", "proj"}
  /\ (program = ProgReduction /\ last.op = "match")
       => \A k \in OwnAt :
             PredAt(k).t = "outMaps"
               => last.trace[k].r =
                    \A j \in 1..Len(Op[last.n].outMaps) :
                       Op[last.n].outMaps[j] \in {"perm", "proj"}

\* The anchor accepted a reduction whose output map is a projected
\* permutation that is no permutation.
C19_Witness ==
  /\ AnchorMatched
  /\ Op[last.n].outMaps = <<"proj">>

\* C20: on leading -> reduction(leading, fill) -> trailing in a function
\* whose tileable operations are these four, the reduction of rank 3 with a
\* trailing reduction dimension of size 128, matching the anchor on fresh
\* matchers succeeds, sets reductionRank to 3 and reductionDimensionSize
\* to 128, and the four matchers capture these four operations.
C20_ReductionExample ==
  /\ TilableIn(4) = {5, 6, 7, 8}
  /\ Op[7].ins = <<Res(5)>> /\ Op[7].outs = <<Res(6)>>
  /\ Op[6].kind = "fill" /\ Op[8].ins = <<Res(7)>>
  /\ Op[7].iters = <<"parallel", "parallel", "reduction">>
  /\ Op[7].sizes[3] = 128 /\ Op[7].bits = 32 /\ Op[7].combiners = 1
  /\ (program = ProgReduction /\ last.op = "match" /\ last.m = Reduction
      /\ last.n = 7 /\ last.fresh)
       => /\ last.r
          /\ cells[ReductionRank] = 3
          /\ cells[ReductionDimensionSize] = 128
          /\ captured[Reduction] = 7 /\ captured[Fill] = 6
          /\ captured[Leading] = 5 /\ captured[Trailing] = 8

\* The anchor was matched on the reduction with fresh matchers.
C20_Witness ==
  /\ program = ProgReduction /\ last.op = "match" /\ last.m = Reduction
  /\ last.n = 7 /\ last.fresh /\ last.r
  /\ captured[Trailing] = 8

\* A match of the anchor of makeReductionMatcher on fresh matchers.
FreshAnchorCall ==
  /\ program = ProgReduction
  /\ last.op = "match" /\ last.m = Reduction /\ last.fresh

\* C21: leading and trailing are optional and the fill is mandatory: on
\* fresh matchers the anchor matches the reduction whose result only a
\* non-matching operation uses (trailing captures nothing) and the
\* reduction whose input has no producer (leading captures nothing), and
\* it never matches a reduction whose output no fill produces.
C21_OptionalEndsMandatoryFill ==
  /\ UsersOf(Res(29)) = <<30>> /\ ~IsLinalg(30)
  /\ DefiningOp(Op[24].ins[1]) = Null
  /\ FreshAnchorCall =>
       /\ last.n = 29 => (/\ last.r
                          /\ captured[Trailing] = Null
                          /\ captured[Leading] = 27 /\ captured[Fill] = 28)
       /\ last.n = 24 => (/\ last.r
                          /\ captured[Leading] = Null
                          /\ captured[Trailing] = 25 /\ captured[Fill] = 23)
  /\ AnchorMatched =>
       /\ Len(Op[last.n].outs) = 1
       /\ DefiningOp(Op[last.n].outs[1]) # Null
       /\ Op[DefiningOp(Op[last.n].outs[1])].kind = "fill"
       /\ captured[Fill] = DefiningOp(Op[last.n].outs[1])

\* The anchor matched the reduction whose result no trailing operation
\* uses, and the trailing matcher holds nothing.
C21_Witness ==
  /\ FreshAnchorCall /\ last.r /\ last.n = 29
  /\ captured[Trailing] = Null /\ captured[Leading] = 27

\* The places in the trace of the capture predicates that write cell c,
\* and what the predicate at place k writes: the rank, or the loop range of
\* its dimension, of the operation it is evaluated on.
WritersOf(c) ==
  {k \in 1..Len(last.trace) :
     /\ last.trace[k].i > 0
     /\ predicates[last.trace[k].m][last.trace[k].i].t \in {"capRank", "capDim"}
     /\ predicates[last.trace[k].m][last.trace[k].i].val = c}
WrittenAt(k) ==
  LET e == last.trace[k]
      p == predicates[e.m][e.i]
  IN IF p.t = "capRank" THEN Rank(Op[e.n])
     ELSE Op[e.n].sizes[Transformed(p.pos, Rank(Op[e.n])) + 1]

\* C22: a capture predicate writes its cell whenever it runs and returns
\* true, and nothing is rolled back: after a match, failed or not, a cell
\* holds what the last capture predicate that ran on it wrote, and a cell
\* no predicate that ran owns is unchanged.
C22_CaptureNotRolledBack ==
  [][last'.op = "match" =>
       \A c \in Cells :
          /\ \A k \in WritersOf(c)' : last'.trace[k].r
          /\ IF WritersOf(c)' = {} THEN cells'[c] = cells[c]
             ELSE \E k \in WritersOf(c)' :
                     /\ \A k2 \in WritersOf(c)' : k2 <= k
                     /\ cells'[c] = WrittenAt(k)']_vars

\* The match failed at the fill producer: the cells of the rank and
\* dimension captures before it hold the values of the candidate, the
\* cells of the predicates after it were never written.
C22_Witness ==
  /\ program = ProgReduction /\ last.op = "match" /\ ~last.r
  /\ last.n = 33
  /\ cells[ReductionRank] = 2 /\ cells[ReductionDimensionSize] = 128
  /\ cells[MaybeLeadingRank] = InitCell /\ cells[MaybeTrailingRank] = InitCell

-----------------------------------------------------------------------------
(* Properties of MatchCallbackResult and MatchCallbacksRegistry.           *)

\* The group a call of the client is to contribute.
Contributed(call) ==
  IF call.fn = "group" THEN call.arg
  ELSE IF call.arg = Null THEN <<>> ELSE <<call.arg>>

\* C23: after any sequence of addPayloadGroup and
\* addPotentiallyEmptyPayloadGroup calls the number of groups is the number
\* of calls and group i holds the operations passed to call i, in order: an
\* empty group for a null operation, a singleton for a non-null one.
C23_GroupsInInsertionOrder ==
  /\ getNumPayloadGroups = Len(calls)
  /\ \A i \in 0..(Len(calls) - 1) :
        getPayloadGroup(i) = Contributed(calls[i + 1])

\* A two-operation group, then an empty optional group, then a singleton
\* optional group that kept its index.
C23_Witness ==
  /\ Len(calls) = 3
  /\ calls[1].fn = "group" /\ Len(calls[1].arg) = 2
  /\ calls[2].fn = "optional" /\ calls[2].arg = Null
  /\ calls[3].fn = "optional" /\ calls[3].arg # Null
  /\ getPayloadGroup(1) = <<>>
  /\ getPayloadGroup(2) = <<calls[3].arg>>

\* The registrations made under a name, and the callback of the first.
RegistrationsOf(name) == {i \in 1..Len(calls) : calls[i].name = name}
FirstRegistered(name) ==
  IF RegistrationsOf(name) = {} THEN NoCallback
  ELSE calls[CHOOSE i \in RegistrationsOf(name) :
               \A j \in RegistrationsOf(name) : i <= j].arg

\* C24: get(name) returns the callback first registered under name and null
\* for a name never registered; a registration under a name already present
\* never replaces the callback, and the program ends at a registration only
\* when the name was already present.
C24_FirstRegistrationKept ==
  [][/\ \A name \in Names :
          /\ get(name)' = FirstRegistered(name)'
          /\ (probe' # probe /\ probe'.kind = "get" /\ probe'.name = name)
               => probe'.fn = FirstRegistered(name)'
     /\ (status' = "aborted" /\ status = "ok")
          => calls'[Len(calls')].name \in DOMAIN callbacks]_vars

\* A name was registered again with another callback, the program ended
\* there, and the name still has the callback registered first.
C24_Witness ==
  /\ status = "aborted"
  /\ Len(calls) = 2
  /\ calls[1].name = calls[2].name /\ calls[1].arg # calls[2].arg
  /\ get(calls[1].name) = calls[1].arg

-----------------------------------------------------------------------------
(* Properties of concurrent evaluations.                                   *)

\* The match of the anchor on candidate n made alone on fresh matchers.
Alone(n) ==
  Match(Reduction, n,
        [captured |-> FreshCaptured, cells |-> FreshCells, trace |-> <<>>,
         oob |-> FALSE, status |-> "ok"], NoGarbage)

\* C25: with a group of matchers and capture storage of its own, a thread
\* that evaluates match while another thread evaluates match on another
\* candidate reports what the match made alone reports, and on success
\* leaves the captured operations and capture cells of the match made alone
\* (when the threads share the matchers a successful match can leave
\* captures of the other candidate: the witness).
C25_IndependentInstancesAgree ==
  (threads # NoThreads /\ ~threads.shared) =>
     \A t \in Threads :
        threads.of[t].done =>
           /\ threads.of[t].r = Alone(threads.of[t].n).r
           /\ threads.of[t].r =>
                /\ threads.captured[t] = Alone(threads.of[t].n).st.captured
                /\ threads.cells[t] = Alone(threads.of[t].n).st.cells

\* On shared matchers the match of thread 1 succeeded, passing the
\* exhaustiveness check, and the fill matcher holds an operation of the
\* function of the other candidate.
C25_Witness ==
  /\ threads # NoThreads /\ threads.shared
  /\ threads.of[1].done /\ threads.of[1].r
  /\ captured[Reduction] = threads.of[1].n
  /\ captured[Fill] # Null
  /\ ParentFunc(captured[Fill]) # ParentFunc(threads.of[1].n)
  /\ ParentFunc(captured[Fill]) = ParentFunc(threads.of[2].n)

-----------------------------------------------------------------------------
(* Properties of the subset traversals.                                    *)

MaxViews == 3

IsView(v) == v.k = "res" /\ Op[v.op].kind = "slice"
Transparent(n) == Op[n].kind \in {"slice", "foreach"}

\* The value under exactly N views of v, NoValue if v has fewer.
RECURSIVE Stripped(_, _)
Stripped(v, N) ==
  IF N = 0 THEN v
  ELSE IF IsView(v) THEN Stripped(Op[v.op].ins[1], N - 1)
  ELSE NoValue

\* The value after exactly N views, each the only use of the one before;
\* NoValue if the chain is shorter or some value has another use.
RECURSIVE Followed(_, _)
Followed(v, N) ==
  IF N = 0 THEN v
  ELSE IF Len(UsesOf(v)) = 1 /\ Op[UsesOf(v)[1].owner].kind = "slice"
       THEN Followed(Res(UsesOf(v)[1].owner), N - 1)
  ELSE NoValue

\* The uses of v that are shared outputs of a foreach_thread.
TiedUses(v) ==
  {j \in 1..Len(UsesOf(v)) :
     Op[UsesOf(v)[j].owner].kind = "foreach" /\ UsesOf(v)[j].slot = "out"}

\* C26: forward traversal from a value whose one use is a shared output of
\* a foreach_thread does not return the foreach_thread: it returns what the
\* traversal from the block argument tied to that use returns.
C26_FollowsTiedBlockArgument ==
  (probe.kind = "trav" /\ probe.fn = "forward"
     /\ Len(UsesOf(probe.val)) = 1 /\ TiedUses(probe.val) = {1}) =>
     LET use == UsesOf(probe.val)[1]
     IN /\ probe.r # use.owner
        /\ probe.r = traverseSubsetsForwardAnyUse(Arg(use.owner, use.idx))

\* C27: backward traversal from a value with N >= 0 views over the result
\* of an operation that is no view returns that operation; over a block
\* argument of a foreach_thread it returns what the traversal from the
\* shared output tied to the argument returns; over a block argument of
\* another operation it returns that operation.  The result is an
\* operation (never null) and no view.
C27_BackwardsFindsProducer ==
  (probe.kind = "trav" /\ probe.fn = "backwards") =>
     /\ probe.r \in Nodes
     /\ Op[probe.r].kind # "slice"
     /\ \A N \in 0..MaxViews :
          LET under == Stripped(probe.val, N)
          IN /\ (under.k = "res" /\ ~IsView(under)) => probe.r = under.op
             /\ (under.k = "arg" /\ Op[under.op].kind # "foreach") =>
                  probe.r = under.op
             /\ (under.k = "arg" /\ Op[under.op].kind = "foreach") =>
                  probe.r =
                    traverseSubsetsBackwards(Op[under.op].outs[under.i + 1])

\* From the result of two views in a row the traversal returned the
\* operation under them.
C27_Witness ==
  /\ probe.kind = "trav" /\ probe.fn = "backwards"
  /\ IsView(probe.val) /\ IsView(Stripped(probe.val, 1))
  /\ Stripped(probe.val, 2).k = "res" /\ ~IsView(Stripped(probe.val, 2))
  /\ probe.r = Stripped(probe.val, 2).op

\* The first use of v, in use-list order, whose owner is no view and no
\* foreach_thread; 0 if there is none.
FirstOpaqueUse(v) ==
  LET js == {j \in 1..Len(UsesOf(v)) : ~Transparent(UsesOf(v)[j].owner)}
  IN IF js = {} THEN 0 ELSE CHOOSE j \in js : \A j2 \in js : j <= j2

\* C28: forward traversal from a value followed by N >= 0 views, each the
\* only use of the one before, and then by one consumer that is no view
\* returns that consumer; from a value with a use whose owner is no view
\* and no foreach_thread it returns the owner of the first such use, also
\* when views come before it in the use list (unless the traversal
\* returned at a foreach_thread use before it).
C28_ForwardFindsFirstConsumer ==
  (probe.kind = "trav" /\ probe.fn = "forward") =>
     /\ \A N \in 0..MaxViews :
          LET end == Followed(probe.val, N)
          IN (/\ end # NoValue
              /\ Len(UsesOf(end)) = 1
              /\ ~Transparent(UsesOf(end)[1].owner)) =>
                probe.r = UsesOf(end)[1].owner
     /\ LET first == FirstOpaqueUse(probe.val)
        IN (/\ first # 0
            /\ \A j \in 1..first :
                  Op[UsesOf(probe.val)[j].owner].kind = "foreach" =>
                    FirstOtherTied(UsesOf(probe.val)[j].owner,
                                   UsesOf(probe.val)[j]) # -1) =>
              probe.r = UsesOf(probe.val)[first].owner

\* The first use of the value is a view that leads to another consumer,
\* and the traversal returned the owner of the second use.
C28_Witness ==
  /\ probe.kind = "trav" /\ probe.fn = "forward"
  /\ Len(UsesOf(probe.val)) > 1
  /\ Op[UsesOf(probe.val)[1].owner].kind = "slice"
  /\ FirstOpaqueUse(probe.val) = 2
  /\ probe.r = UsesOf(probe.val)[2].owner
  /\ traverseSubsetsForwardAnyUse(Res(UsesOf(probe.val)[1].owner))
       \notin {probe.r, Diverges}

-----------------------------------------------------------------------------
(* Properties of makeSplitReductionMatcher and of the order of attaching.  *)

\* The elements of a list of matchers.
Listed(list) == {list[j] : j \in 1..Len(list)}

\* The list the exhaustiveness predicate of matcher m holds.
CountedBy(m) ==
  UNION {Listed(predicates[m][j].dims) :
           j \in {j \in 1..Len(predicates[m]) :
                    predicates[m][j].t = "allTilable"}}

\* A successful match of combiner_reduction on fresh matchers.
CombinerMatched ==
  /\ program = ProgSplit
  /\ last.op = "match" /\ last.m = CombinerReduction /\ last.r /\ last.fresh

\* C29: once makeSplitReductionMatcher has built the matchers, the
\* exhaustiveness predicate of combiner_reduction counts parallel_reduction,
\* parallel_fill, original_fill, leading and trailing (and the candidate);
\* a successful match of combiner_reduction on fresh matchers captured
\* parallel_reduction, parallel_fill and original_fill in that call, and
\* every tileable operation of the function of the candidate is captured
\* by one of the six matchers.
C29_SplitReductionCoverage ==
  /\ (program = ProgSplit /\ Built) =>
       CountedBy(CombinerReduction) =
         {ParallelReduction, ParallelFill, OriginalFill, Leading, Trailing}
  /\ CombinerMatched =>
       /\ \A x \in {ParallelReduction, ParallelFill, OriginalFill} :
             CapturedNow(x) # Null /\ captured[x] = CapturedNow(x)
       /\ captured[CombinerReduction] = last.n
       /\ TilableIn(ParentFunc(last.n)) = {captured[x] : x \in Matchers} \ {Null}

\* combiner_reduction matched on fresh matchers in a function of six
\* tileable operations, leading and trailing included.
C29_Witness ==
  /\ CombinerMatched
  /\ Cardinality(TilableIn(ParentFunc(last.n))) = 6
  /\ \A x \in Matchers : captured[x] # Null

\* C30: the exhaustiveness predicate compares the number of tileable
\* operations of the function with the candidate and the captures of the
\* matchers nested when it was attached: matcher 3, attached to the anchor
\* afterwards, and matcher 4, attached afterwards to the nested matcher 2,
\* are not counted, whatever they hold; resetCapture of the anchor clears
\* the capture of both.
C30_LaterMatchersNotCounted ==
  (program = ProgAfter /\ Built) =>
     /\ CountedBy(1) = {2}
     /\ Listed(nestedCapturingMatchers[1]) = {2, 3}
     /\ Listed(nestedCapturingMatchers[2]) = {4}
     /\ (last.op = "match" /\ last.m = 1) =>
          \A k \in OwnAt :
             PredAt(k).t = "allTilable" =>
               last.trace[k].r =
                 (/\ ParentFunc(last.n) # Null
                  /\ Cardinality(TilableIn(ParentFunc(last.n))) =
                       Cardinality({last.n} \cup ({captured[2]} \ {Null})))
     /\ (last.op = "reset" /\ last.m = 1) =>
          captured[3] = Null /\ captured[4] = Null

\* The exhaustiveness predicate of the anchor returned false in a function
\* of three tileable operations: the candidate, the fill matcher 2 captured
\* in the call, and the user that matcher 3 holds from before.
C30_Witness ==
  /\ program = ProgAfter
  /\ last.op = "match" /\ last.m = 1 /\ ~last.r
  /\ Own # <<>> /\ predicates[1][Own[Len(Own)].i].t = "allTilable"
  /\ CapturedNow(2) # Null
  /\ captured[3] # Null
  /\ TilableIn(ParentFunc(last.n)) = {last.n, captured[2], captured[3]}

====
